---- MODULE Spec2Model ----
(***************************************************************************)
(* The node lifecycle of the daemon: the NodeState machine (package        *)
(* control), the Control service's Shutdown handler, the serve loop with   *)
(* its shutdown orchestration (server.run / triggerShutdown / stopServers) *)
(* and the MuxListener whose acceptor channels feed the two gRPC servers.  *)
(*                                                                         *)
(* The specifications share the variables:                                 *)
(*   Spec          the daemon (ServeCmd.Run): main goroutine, signal       *)
(*                 handler, two Serve goroutines, Shutdown/other RPCs,     *)
(*                 shutdown goroutines and their timeout watchdogs;        *)
(*   SpecControl   package control on its own, driven the way its unit     *)
(*                 tests drive it: any public State method in any order,   *)
(*                 Shutdown called directly with a recording ShutdownFunc; *)
(*   SpecWrongOrder  the harness of TestWrongCleanupOrderHangs: graceful   *)
(*                 stop is awaited before MuxListener.Close.               *)
(*   SpecTasks     goroutines that bracket work with IncrementTasks and    *)
(*                 DecrementTasks on a READY State;                        *)
(*   SpecDial      MuxDialer: concurrent Dial calls to one address, the    *)
(*                 connection pool and its monitor goroutines;             *)
(*   SpecMux       MuxListener on its own: accept loop, per-connection     *)
(*                 stream routing, Accept on the stream listeners, Close   *)
(*                 statement by statement.                                 *)
(* FairSpec, FairControl, FairWrongOrder, FairDial and FairMux add the     *)
(* scheduler's fairness.                                                   *)
(***************************************************************************)
EXTENDS Integers, Sequences, FiniteSets, TLC

\* ------------------------------------------------------------------ bounds
MaxShutdownRpcs == 1      \* Shutdown RPCs a behaviour may carry
MaxWorkRpcs == 1          \* other RPCs (Ping, SendMessage, ...) in flight
MaxTasks == 1             \* goroutines calling IncrementTasks/DecrementTasks
MaxCount == 2             \* cap on |activeTasks| in the guards
MaxShutdowns == 1         \* shutdown orders (a signal, an accepted Shutdown RPC)
MaxRounds == 2            \* IncrementTasks/DecrementTasks pairs of one worker
MaxCallers == 2           \* goroutines that call MuxDialer.Dial
MaxCalls == 1             \* Dial calls of one goroutine
MaxConns == 3             \* transport connections dialed in a behaviour
MaxPeers == 1             \* transport connections that reach the MuxListener
MaxStreams == 2           \* sub-streams the peers open
MaxAcceptors == 2         \* goroutines that call Accept on a stream listener
MaxPings == 2             \* Ping RPCs a behaviour carries
MaxEvents == 3            \* events of one provider stream
MaxClosers == 2           \* goroutines that call MuxListener.Close
MaxDialerCloses == 2      \* calls of MuxDialer.Close

\* ------------------------------------------------- int64 / time.Duration
\* An int64 is kept in two's complement as NumLimbs digits of base LimbBase,
\* least significant first, so that the multiplication wraps as Go's does.
LimbBase == 256
NumLimbs == 8
WideLimbs == 16

Limbs(n) == 1..n

RECURSIVE LimbOf(_, _)
LimbOf(v, k) == IF k = 1 THEN v % LimbBase ELSE LimbOf(v \div LimbBase, k - 1)

\* The int64 holding the small natural number v.
Int64(v) == [k \in Limbs(NumLimbs) |-> LimbOf(v, k)]

IsNegative(a) == a[Len(a)] >= LimbBase \div 2
IsZero(a) == \A k \in DOMAIN a : a[k] = 0
IsPositive(a) == ~IsNegative(a) /\ ~IsZero(a)

\* a sign-extended to n digits.
SignExtend(a, n) ==
    [k \in Limbs(n) |-> IF k <= Len(a) THEN a[k]
                        ELSE IF IsNegative(a) THEN LimbBase - 1 ELSE 0]

RECURSIVE ColumnSum(_, _, _, _)
ColumnSum(a, b, k, i) ==
    IF i = 0 THEN 0 ELSE a[i] * b[k + 1 - i] + ColumnSum(a, b, k, i - 1)

RECURSIVE CarryOut(_, _, _)
CarryOut(a, b, k) ==
    IF k = 0 THEN 0
    ELSE (ColumnSum(a, b, k, k) + CarryOut(a, b, k - 1)) \div LimbBase

\* a * b truncated to the n low digits: Go's wrapping multiplication.
MulWrap(a, b, n) ==
    [k \in Limbs(n) |-> (ColumnSum(a, b, k, k) + CarryOut(a, b, k - 1)) % LimbBase]

\* time.Second, 1000000000 nanoseconds = 0x3B9ACA00.
Second == <<0, 202, 154, 59, 0, 0, 0, 0>>

\* time.Duration(seconds) * time.Second
DurationOfSeconds(seconds) == MulWrap(seconds, Second, NumLimbs)

\* The product of the two numbers, without truncation, in WideLimbs digits.
ExactProduct(a, b) ==
    MulWrap(SignExtend(a, WideLimbs), SignExtend(b, WideLimbs), WideLimbs)

\* timeoutSeconds values a client may send: 0, 30, 9223372037 (the product
\* exceeds 2^63 - 1) and 18446744074 (the product exceeds 2^64).
TimeoutZero == Int64(0)
TimeoutThirty == Int64(30)
TimeoutHuge == <<5, 125, 193, 37, 2, 0, 0, 0>>
TimeoutWrap == <<10, 250, 130, 75, 4, 0, 0, 0>>
TimeoutInputs == {TimeoutZero, TimeoutThirty, TimeoutHuge, TimeoutWrap}
Reasons == {"maintenance", "upgrade"}

\* ------------------------------------------------------------ identities
Servers == {"control", "a2a"}
SdRpcs == {<<"shutdown", i>> : i \in 1..MaxShutdownRpcs}
WorkRpcs == {<<"work", i>> : i \in 1..MaxWorkRpcs}
Rpcs == SdRpcs \cup WorkRpcs
Sig == <<"signal", 0>>
Tst == <<"test", 0>>
Threads == SdRpcs \cup {Sig, Tst}
Acts == Threads \X {"sd", "wd"}
Tasks == {<<"task", i>> : i \in 1..MaxTasks}

VARIABLES
    state,        \* State.state
    activeTasks,  \* State.activeTasks
    taskPc,       \* position of each caller of IncrementTasks/DecrementTasks
    mainPc,       \* main goroutine: ServeCmd.Run / server.run
    runResult,    \* what run() returned: "none", "nil", "err"
    ctxDone,      \* server.ctx cancelled
    errChan,      \* run's errChan (capacity 2): servers whose error is queued
    wg,           \* server.wg counter
    servePc,      \* position of each Serve goroutine
    serveErr,     \* whether Serve returned a non-nil error
    quit,         \* grpc.Server: Stop or GracefulStop was called
    done,         \* grpc.Server: a Stop or GracefulStop call has returned
    draining,     \* grpc.Server: transports were told to drain
    lClosed,      \* MuxListener.closed (scope cancelled, channels closed)
    qlClosed,     \* the transport listener is closed
    rpc,          \* each RPC: handler position, connection, request, reply
    act,          \* each shutdown goroutine and watchdog: instruction pointer
    args,         \* arguments each ShutdownFunc goroutine was started with
    calls,        \* times the ShutdownFunc was entered, per goroutine
    testFailed    \* TestWrongCleanupOrderHangs reached t.Fatal

VARIABLES
    conns,            \* MuxDialer.conns: the pooled connection of each address
    qconn,            \* each transport connection the dialer established
    dial,             \* each Dial call: position, locals, what it returned
    dclose,           \* MuxDialer.Close: the calls made, what they closed
    concurrentDials   \* history: two Dial calls have overlapped

VARIABLES
    lctx,             \* MuxListener.ctx is cancelled
    streams,          \* MuxListener.streams: the acceptor channel of each type
    lconns,           \* MuxListener.conns: the live-set
    closePc,          \* MuxListener.Close, per caller: its next step, its locals
    loop,             \* acceptLoop: position, connection in hand
    peer,             \* each transport connection: state, handleConnection
    strm,             \* each sub-stream: type byte, where it is
    acc,              \* each Accept call on a stream listener
    panicked          \* a goroutine panicked: the process is gone

dialVars == <<conns, qconn, dial, concurrentDials, dclose>>
routeVars == <<lctx, streams, lconns, closePc, loop, peer, strm, acc, panicked>>
VARIABLES
    metadata,         \* State.metadata
    ping              \* each Ping RPC: position, request, reply

VARIABLES
    exec,             \* Executor.Execute: position, inputs, locals, result
    queue             \* the eventqueue.Queue of the request

VARIABLES
    leaf,             \* what GenerateCert returned for the server, the client
    shake             \* the last mTLS handshake: the two configs, the outcome

execVars == <<exec, queue>>
pkiVars == <<leaf, shake>>
svcVars == <<metadata, ping, execVars, pkiVars>>
muxVars == <<dialVars, routeVars, svcVars>>

nodeVars == <<state, activeTasks, taskPc>>
mainVars == <<mainPc, runResult, ctxDone, errChan, wg>>
grpcVars == <<servePc, serveErr, quit, done, draining>>
lisVars == <<lClosed, qlClosed>>
actVars == <<act, args, calls>>
vars == <<state, activeTasks, taskPc, mainPc, runResult, ctxDone, errChan, wg,
          servePc, serveErr, quit, done, draining, lClosed, qlClosed, rpc,
          act, args, calls, testFailed, muxVars>>

\* The process is alive until main returns from ServeCmd.Run.
Alive == mainPc # "exited"

\* ---------------------------------------------------- MuxDialer, its state
Addrs == {"peer", "other"}
StreamTypes == {"control", "a2a"}
Callers == {<<"caller", i>> : i \in 1..MaxCallers}
ConnIds == 1..MaxConns
NoConn == 0                       \* no *MuxConn (nil, or no map entry)

\* A transport connection that was not dialed yet.
NoQConn == [est |-> FALSE, open |-> FALSE, scope |-> "live", addr |-> "-",
            monitor |-> "none"]

\* A goroutine that is not inside Dial; result and on describe its last call.
NoDial == [pc |-> "idle", addr |-> "-", typ |-> "-", try |-> 0,
           muxConn |-> NoConn, opens |-> 0, dials |-> 0,
           result |-> "none", on |-> NoConn, calls |-> 0]

\* MuxDialer.Close was not called; else calls counts the calls, last is the
\* set of connections the last call closed, ever the set any call closed,
\* ret what the last call returned.
NoDialerClose == [calls |-> 0, last |-> {}, ever |-> {}, ret |-> "-"]

\* NewMuxDialer: conns is an empty map.
NewMuxDialer ==
    /\ conns = [a \in Addrs |-> NoConn]
    /\ qconn = [k \in ConnIds |-> NoQConn]
    /\ dial = [c \in Callers |-> NoDial]
    /\ concurrentDials = FALSE
    /\ dclose = NoDialerClose

\* ------------------------------------------- State.metadata, Ping RPCs
MetaKeys == {"role"}
MetaValues == {"worker", "router"}
NoValue == "-"                    \* the key is not in the map
Pings == 1..MaxPings
Timestamps == {-1, 0, 1}          \* int64 nanoseconds, of either clock

NoPingResp == [pingTimestamp |-> 0, pongTimestamp |-> 0, err |-> FALSE,
               set |-> FALSE]

\* A Ping RPC that was not sent yet.
NoPing == [pc |-> "idle", req |-> [timestamp |-> 0], resp |-> NoPingResp]

\* Text is a sequence of chunks; "" is the empty sequence.
Chunks == {"a", "b"}
Contents == {<<>>} \cup {<<c>> : c \in Chunks}
ErrText == <<"error">>            \* err.Error()

\* llm.StreamEvent{Content, Done, Error}
StreamEvents == [content : Contents, done : BOOLEAN, error : BOOLEAN]
RECURSIVE SeqsUpTo(_, _)
SeqsUpTo(S, n) ==
    IF n = 0 THEN {<<>>}
    ELSE LET shorter == SeqsUpTo(S, n - 1)
         IN  shorter \cup {Append(q, x) : q \in shorter, x \in S}
EventStreams == SeqsUpTo(StreamEvents, MaxEvents)

\* What the provider does for one request: whether Complete, or the start
\* of Stream, fails; the text Complete returns; the events of the stream.
NoProvider == [fails |-> FALSE, response |-> <<>>, events |-> <<>>]

\* No Execute call yet.  ret is what Execute returned: "nil" or "writeErr"
\* (the error of a failed q.Write).
NoExec == [pc |-> "idle", streaming |-> FALSE, provider |-> NoProvider,
           stream |-> <<>>, fullResponse |-> <<>>, ret |-> "none"]

\* Certificate authorities (each its own key), identities (the second one
\* is not a URI: url.Parse fails), the two ends of a handshake.
CAs == {"ca1", "ca2"}
Identities == {"spiffe://latis/node/test", ":bad"}
ServerNames == {"localhost", "example.org"}
Roles == {"server", "client"}

NoCert == [issuer |-> "-", cn |-> "-", eku |-> {}, dns |-> {}]
\* GenerateCert was not called; else err says whether it failed, cert is
\* the certificate and isServer, isClient the flags of the call.
NoLeaf == [minted |-> FALSE, err |-> FALSE, cert |-> NoCert,
           isServer |-> FALSE, isClient |-> FALSE]
NoShake == [done |-> FALSE, ok |-> FALSE, serverCA |-> "-", clientCA |-> "-",
            serverName |-> "-"]

\* NewState: an empty metadata map; no Ping was sent; no request executes.
NewServices ==
    /\ metadata = [k \in MetaKeys |-> NoValue]
    /\ ping = [p \in Pings |-> NoPing]
    /\ exec = NoExec
    /\ queue = <<>>
    /\ leaf = [s \in Roles |-> NoLeaf]
    /\ shake = NoShake

\* -------------------------------------------------- MuxListener, its state
ChanCap == 16                     \* make(chan net.Conn, 16)
TypeBytes == StreamTypes \cup {"unknown"}
\* A sub-stream the peer resets before it wrote the type byte.
NoTypeByte == "reset"
Peers == 1..MaxPeers
StreamIds == 1..MaxStreams
NoStream == 0                     \* no net.Conn (nil)
Acceptors == {<<"acceptor", i>> : i \in 1..MaxAcceptors}

\* A transport connection no peer has opened; hpc is the position of its
\* handleConnection goroutine and cur the stream that goroutine holds.
NoPeer == [st |-> "none", open |-> FALSE, hpc |-> "none", cur |-> NoStream]

\* A sub-stream no peer has opened; reads counts the reads of its type
\* byte and returns the Accept calls that returned it.
NoStrm == [conn |-> NoConn, typ |-> "-", st |-> "none", reads |-> 0, returns |-> 0]

\* A goroutine that has not called Close: step is the statement it
\* executes next, chans the channels its range loop has closed, ret what
\* the call returned, overlap whether another call ran when it was made.
Closers == 1..MaxClosers
NoClose == [step |-> 0, chans |-> {}, ret |-> "-", overlap |-> FALSE]

\* A goroutine that has not called Accept.
NoAccept == [pc |-> "idle", typ |-> "-", got |-> NoStream, err |-> "none"]

\* ListenMux: the two acceptor channels, an empty live-set, the scope, and
\* the accept loop started.
ListenMux ==
    /\ lctx = FALSE
    /\ streams = [t \in StreamTypes |-> [buf |-> <<>>, closed |-> FALSE]]
    /\ lconns = {}
    /\ closePc = [c \in Closers |-> NoClose]
    /\ loop = [pc |-> "accept", conn |-> NoConn]
    /\ peer = [k \in Peers |-> NoPeer]
    /\ strm = [x \in StreamIds |-> NoStrm]
    /\ acc = [a \in Acceptors |-> NoAccept]
    /\ panicked = FALSE

\* ------------------------------------------------------------- NodeState
\* atomic.Int32.CompareAndSwap on State.state.
CompareAndSwap(cur, old, new) == IF cur = old THEN new ELSE cur

SetReady == state' = "READY"
SetDraining == state' = "DRAINING"
SetStopped == state' = "STOPPED"

\* IncrementTasks: s.activeTasks.Add(1), then CompareAndSwap(READY, BUSY).
IncrementTasksAdd(c, from) ==
    /\ taskPc[c] = from
    /\ activeTasks < MaxCount
    /\ activeTasks' = activeTasks + 1
    /\ taskPc' = [taskPc EXCEPT ![c] = "incCas"]
    /\ UNCHANGED state

IncrementTasksCas(c, to) ==
    /\ taskPc[c] = "incCas"
    /\ state' = CompareAndSwap(state, "READY", "BUSY")
    /\ taskPc' = [taskPc EXCEPT ![c] = to]
    /\ UNCHANGED activeTasks

\* A DecrementTasks that leaves the state alone.
DecrementTasksAddOnly(c, from) ==
    /\ taskPc[c] = from
    /\ activeTasks' = activeTasks - 1
    /\ taskPc' = [taskPc EXCEPT ![c] = "idle"]
    /\ UNCHANGED state

\* DecrementTasks: if s.activeTasks.Add(-1) == 0, CompareAndSwap(BUSY, READY).
DecrementTasksAdd(c, from) ==
    /\ taskPc[c] = from
    /\ activeTasks > -MaxCount
    /\ activeTasks' = activeTasks - 1
    /\ taskPc' = [taskPc EXCEPT ![c] = IF activeTasks' = 0 THEN "decCas" ELSE "idle"]
    /\ UNCHANGED state

DecrementTasksCas(c) ==
    /\ taskPc[c] = "decCas"
    /\ state' = CompareAndSwap(state, "BUSY", "READY")
    /\ taskPc' = [taskPc EXCEPT ![c] = "idle"]
    /\ UNCHANGED activeTasks

\* --------------------------------------------------------------- records
NoReq == [graceful |-> FALSE, timeoutSeconds |-> TimeoutZero, reason |-> ""]
NoResp == [accepted |-> FALSE, rejectionReason |-> "", err |-> FALSE, set |-> FALSE]
NoArgs == [graceful |-> FALSE, timeout |-> TimeoutZero, reason |-> ""]

\* An RPC that was not sent yet.  pc: "idle", "handling" (the handler runs),
\* "replying" (Shutdown: the reply is built, the handler has not returned),
\* "delivered" (the handler returned and the reply reached the caller) or
\* "lost" (the handler returned on a closed connection).
IdleRpc == [pc |-> "idle", srv |-> "control", connOpen |-> FALSE,
            req |-> NoReq, resp |-> NoResp]

InHandler(r) == rpc[r].pc \in {"handling", "replying"}

\* ------------------------------------------------- control.Server.Shutdown
\* A handler that refuses in DRAINING only.
ShutdownRejectsDrainingOnly(currentState) == currentState = "DRAINING"

\* The states in which Shutdown refuses.
ShutdownRejects(currentState) == currentState \in {"DRAINING", "STOPPED"}

\* The goroutine `go s.shutdown(req.Graceful, timeout, req.Reason)`.
ShutdownArgs(req) ==
    [graceful |-> req.graceful,
     timeout |-> DurationOfSeconds(req.timeoutSeconds),
     reason |-> req.reason]

\* The handler up to its return statement: read the state, refuse, or start
\* the shutdown goroutine and build the accepting reply.
Shutdown(r) ==
    /\ Alive
    /\ r \in SdRpcs
    /\ rpc[r].pc = "handling"
    /\ LET currentState == state IN
       IF ShutdownRejects(currentState)
       THEN /\ rpc' = [rpc EXCEPT ![r].pc = "replying",
                                  ![r].resp = [accepted |-> FALSE,
                                               rejectionReason |-> "node is already shutting down",
                                               err |-> FALSE, set |-> TRUE]]
            /\ UNCHANGED <<act, args>>
       ELSE /\ rpc' = [rpc EXCEPT ![r].pc = "replying",
                                  ![r].resp = [accepted |-> TRUE,
                                               rejectionReason |-> "",
                                               err |-> FALSE, set |-> TRUE]]
            /\ act' = [act EXCEPT ![<<r, "sd">>] = [ip |-> 1, phase |-> "start"]]
            /\ args' = [args EXCEPT ![r] = ShutdownArgs(rpc[r].req)]
    /\ UNCHANGED <<nodeVars, mainVars, grpcVars, lisVars, calls, testFailed, muxVars>>

\* The handler returns; gRPC writes the reply on the RPC's connection, and
\* a draining transport closes after its last RPC.
HandlerReturn(r) ==
    /\ Alive
    /\ rpc[r].pc = IF r \in SdRpcs THEN "replying" ELSE "handling"
    /\ rpc' = [rpc EXCEPT ![r].pc = IF rpc[r].connOpen THEN "delivered" ELSE "lost",
                          ![r].connOpen = @ /\ ~draining[rpc[r].srv]]
    /\ UNCHANGED <<nodeVars, mainVars, grpcVars, lisVars, actVars, testFailed, muxVars>>

\* -------------------------------------------- package control on its own
\* server.Shutdown(ctx, req) called directly, as the unit tests do.
ControlCall(r, g, ts, why) ==
    /\ rpc[r].pc = "idle"
    /\ rpc' = [rpc EXCEPT ![r] = [IdleRpc EXCEPT !.pc = "handling", !.connOpen = TRUE,
                  !.req = [graceful |-> g, timeoutSeconds |-> ts, reason |-> why]]]
    /\ UNCHANGED <<nodeVars, mainVars, grpcVars, lisVars, actVars, testFailed, muxVars>>

\* The recording ShutdownFunc of the unit tests runs in its goroutine.
RecordingShutdownFn(t) ==
    /\ act[<<t, "sd">>] = [ip |-> 1, phase |-> "start"]
    /\ calls' = [calls EXCEPT ![t] = calls[t] + 1]
    /\ act' = [act EXCEPT ![<<t, "sd">>] = [ip |-> 2, phase |-> "done"]]
    /\ UNCHANGED <<nodeVars, mainVars, grpcVars, lisVars, rpc, args, testFailed, muxVars>>

\* A test calling a State setter.
CallSetReady ==
    /\ SetReady
    /\ UNCHANGED <<activeTasks, taskPc, mainVars, grpcVars, lisVars, rpc, actVars, testFailed, muxVars>>
CallSetDraining ==
    /\ SetDraining
    /\ UNCHANGED <<activeTasks, taskPc, mainVars, grpcVars, lisVars, rpc, actVars, testFailed, muxVars>>
CallSetStopped ==
    /\ SetStopped
    /\ UNCHANGED <<activeTasks, taskPc, mainVars, grpcVars, lisVars, rpc, actVars, testFailed, muxVars>>

restOfNode == <<mainVars, grpcVars, lisVars, rpc, actVars, testFailed, muxVars>>

CallIncrementTasks(c) ==
    /\ \/ IncrementTasksAdd(c, "idle")
       \/ IncrementTasksCas(c, "idle")
    /\ UNCHANGED restOfNode

CallDecrementTasks(c) ==
    /\ \/ DecrementTasksAdd(c, "idle")
       \/ DecrementTasksCas(c)
    /\ UNCHANGED restOfNode

\* The state after construction: NewState, newServer, signal.Notify.
Init ==
    /\ state = "STARTING"
    /\ activeTasks = 0
    /\ taskPc = [c \in Tasks |-> "idle"]
    /\ mainPc = "start"
    /\ runResult = "none"
    /\ ctxDone = FALSE
    /\ errChan = <<>>
    /\ wg = 0
    /\ servePc = [s \in Servers |-> "none"]
    /\ serveErr = [s \in Servers |-> FALSE]
    /\ quit = [s \in Servers |-> FALSE]
    /\ done = [s \in Servers |-> FALSE]
    /\ draining = [s \in Servers |-> FALSE]
    /\ lClosed = FALSE
    /\ qlClosed = FALSE
    /\ rpc = [r \in Rpcs |-> IdleRpc]
    /\ act = [a \in Acts |-> [ip |-> 0, phase |-> "start"]]
    /\ args = [t \in Threads |-> NoArgs]
    /\ calls = [t \in Threads |-> 0]
    /\ testFailed = FALSE
    /\ NewMuxDialer
    /\ ListenMux
    /\ NewServices

NextControl ==
    \/ CallSetReady
    \/ CallSetDraining
    \/ CallSetStopped
    \/ \E c \in Tasks : CallIncrementTasks(c)
    \/ \E c \in Tasks : CallDecrementTasks(c)
    \/ \E r \in SdRpcs, g \in BOOLEAN, ts \in TimeoutInputs, why \in Reasons :
          ControlCall(r, g, ts, why)
    \/ \E r \in SdRpcs : Shutdown(r)
    \/ \E r \in SdRpcs : HandlerReturn(r)
    \/ \E t \in SdRpcs : RecordingShutdownFn(t)

SpecControl == Init /\ [][NextControl]_vars

FairControl ==
    /\ SpecControl
    /\ \A r \in SdRpcs : WF_vars(Shutdown(r))
    /\ \A r \in SdRpcs : WF_vars(HandlerReturn(r))
    /\ \A t \in SdRpcs : WF_vars(RecordingShutdownFn(t))

\* ------------------------------------------------------ control.Server.Ping
restOfPing == <<taskPc, mainVars, grpcVars, lisVars, rpc, actVars, testFailed,
                dialVars, routeVars, execVars, pkiVars>>

\* A reply that carries the server's clock in both fields.
PingResponseClockOnly(req, now) ==
    [pingTimestamp |-> now, pongTimestamp |-> now, err |-> FALSE, set |-> TRUE]

\* &latisv1.PingResponse{PingTimestamp: req.Timestamp,
\*                       PongTimestamp: time.Now().UnixNano()}, nil
PingResponse(req, now) ==
    [pingTimestamp |-> req.timestamp, pongTimestamp |-> now, err |-> FALSE,
     set |-> TRUE]

\* A client sends PingRequest{Timestamp: ts}.
PingCall(p, ts) ==
    /\ ping[p].pc = "idle"
    /\ ping' = [ping EXCEPT ![p] = [NoPing EXCEPT !.pc = "handling",
                                       !.req = [timestamp |-> ts]]]
    /\ UNCHANGED <<state, activeTasks, metadata, restOfPing>>

\* Server.Ping, the whole handler; now is what time.Now().UnixNano() gives.
Ping(p, now) ==
    /\ ping[p].pc = "handling"
    /\ ping' = [ping EXCEPT ![p].pc = "returned",
                            ![p].resp = PingResponse(ping[p].req, now)]
    /\ UNCHANGED <<state, activeTasks, metadata, restOfPing>>

\* State.SetMetadata(key, value)
SetMetadata(key, value) ==
    /\ metadata' = [metadata EXCEPT ![key] = value]
    /\ UNCHANGED <<state, activeTasks, ping, restOfPing>>

NextPing ==
    \/ CallSetReady
    \/ CallSetDraining
    \/ CallSetStopped
    \/ \E c \in Tasks : CallIncrementTasks(c)
    \/ \E c \in Tasks : CallDecrementTasks(c)
    \/ \E k \in MetaKeys, v \in MetaValues : SetMetadata(k, v)
    \/ \E p \in Pings, ts \in Timestamps : PingCall(p, ts)
    \/ \E p \in Pings, now \in Timestamps : Ping(p, now)

SpecPing == Init /\ [][NextPing]_vars

\* ------------------------------------------------------- a2aexec.Executor
restOfExec == <<nodeVars, mainVars, grpcVars, lisVars, rpc, actVars, testFailed,
                dialVars, routeVars, metadata, ping, pkiVars>>

\* a2a.NewStatusUpdateEvent(reqCtx, state, message), with its Final flag.
StatusEvent(st, final, text) ==
    [kind |-> "status", state |-> st, final |-> final, text |-> text]

\* a2a.NewMessage(a2a.MessageRoleAgent, a2a.TextPart{Text: text})
AgentMessage(text) ==
    [kind |-> "message", state |-> "-", final |-> FALSE, text |-> text]

\* q.Write(ctx, event): the event is queued, or the write fails.
Write(q, event, ok) ==
    IF ok THEN [queue |-> Append(q, event), ret |-> "nil"]
    ELSE [queue |-> q, ret |-> "writeErr"]

\* A writeError that hands the provider's error to the caller.
writeErrorReturnsIt(q, ok) ==
    [queue |-> q, ret |-> "providerErr"]

\* Executor.writeError: a final FAILED status update carrying err.Error().
writeError(q, ok) == Write(q, StatusEvent("FAILED", TRUE, ErrText), ok)

\* An accumulator that keeps the last chunk only.
AccumulateLast(fullResponse, content) == content

\* fullResponse.WriteString(event.Content)
Accumulate(fullResponse, content) == fullResponse \o content

\* Execute is called for a request; the provider's behaviour is the input.
ExecuteCall(streaming, provider) ==
    /\ exec.pc = "idle"
    /\ exec' = [NoExec EXCEPT !.pc = IF streaming THEN "stream" ELSE "complete",
                              !.streaming = streaming, !.provider = provider]
    /\ UNCHANGED <<queue, restOfExec>>

\* Execute returns r.ret, having left r.queue.
ExecuteReturns(r) ==
    /\ exec' = [exec EXCEPT !.pc = "returned", !.stream = <<>>, !.ret = r.ret]
    /\ queue' = r.queue

\* executeNonStreaming: Complete, then the agent message or writeError.
ExecuteNonStreaming(ok) ==
    /\ exec.pc = "complete"
    /\ ExecuteReturns(IF exec.provider.fails
                      THEN writeError(queue, ok)
                      ELSE Write(queue, AgentMessage(exec.provider.response), ok))
    /\ UNCHANGED restOfExec

\* executeStreaming: provider.Stream; writeError if it fails to start.
StreamStart(ok) ==
    /\ exec.pc = "stream"
    /\ IF exec.provider.fails
       THEN ExecuteReturns(writeError(queue, ok))
       ELSE /\ exec' = [exec EXCEPT !.pc = "range", !.stream = exec.provider.events]
            /\ UNCHANGED queue
    /\ UNCHANGED restOfExec

\* One iteration of `for event := range stream`: an error event ends in
\* writeError; content is accumulated and sent as a WORKING update; Done
\* sends the final COMPLETED update.  ok1 and ok2 say whether the first and
\* the second q.Write of the iteration succeed.
StreamIteration(ok1, ok2) ==
    /\ exec.pc = "range"
    /\ exec.stream # <<>>
    /\ LET event == Head(exec.stream)
           full == IF event.content # <<>>
                   THEN Accumulate(exec.fullResponse, event.content)
                   ELSE exec.fullResponse
           working == IF event.content # <<>>
                      THEN Write(queue, StatusEvent("WORKING", FALSE, event.content), ok1)
                      ELSE [queue |-> queue, ret |-> "nil"]
       IN  IF event.error
           THEN ExecuteReturns(writeError(queue, ok1))
           ELSE IF working.ret # "nil"
           THEN ExecuteReturns(working)
           ELSE IF event.done
           THEN /\ ExecuteReturns(Write(working.queue,
                                        StatusEvent("COMPLETED", TRUE, full), ok2))
           ELSE /\ exec' = [exec EXCEPT !.stream = Tail(@), !.fullResponse = full]
                /\ queue' = working.queue
    /\ UNCHANGED restOfExec

\* The stream is closed without a Done event: the final COMPLETED update.
StreamEnds(ok) ==
    /\ exec.pc = "range"
    /\ exec.stream = <<>>
    /\ ExecuteReturns(Write(queue, StatusEvent("COMPLETED", TRUE, exec.fullResponse), ok))
    /\ UNCHANGED restOfExec

NextExec ==
    \/ \E fails \in BOOLEAN, events \in EventStreams :
          ExecuteCall(TRUE, [NoProvider EXCEPT !.fails = fails, !.events = events])
    \/ \E fails \in BOOLEAN, response \in Contents :
          ExecuteCall(FALSE, [NoProvider EXCEPT !.fails = fails, !.response = response])
    \/ \E ok \in BOOLEAN : ExecuteNonStreaming(ok)
    \/ \E ok \in BOOLEAN : StreamStart(ok)
    \/ \E ok1, ok2 \in BOOLEAN : StreamIteration(ok1, ok2)
    \/ \E ok \in BOOLEAN : StreamEnds(ok)

SpecExec == Init /\ [][NextExec]_vars

\* ----------------------------------------------------------------- package pki
restOfPki == <<nodeVars, mainVars, grpcVars, lisVars, rpc, actVars, testFailed,
               dialVars, routeVars, metadata, ping, execVars>>

\* url.Parse(identity)
ParsesAsURI(identity) == identity # ":bad"

\* The ExtKeyUsage GenerateCert sets for the flags.
ExtKeyUsageOf(isServer, isClient) ==
    IF isServer /\ isClient THEN {"serverAuth", "clientAuth"}
    ELSE IF isServer THEN {"serverAuth"}
    ELSE IF isClient THEN {"clientAuth"}
    ELSE {}

\* GenerateCert(ca, identity, isServer, isClient): a leaf signed by ca, or
\* the error of url.Parse.
GenerateCert(ca, identity, isServer, isClient) ==
    IF ~ParsesAsURI(identity)
    THEN [NoLeaf EXCEPT !.minted = TRUE, !.err = TRUE,
                        !.isServer = isServer, !.isClient = isClient]
    ELSE [minted |-> TRUE, err |-> FALSE,
          cert |-> [issuer |-> ca, cn |-> identity,
                    eku |-> ExtKeyUsageOf(isServer, isClient),
                    dns |-> {"localhost"}],
          isServer |-> isServer, isClient |-> isClient]

\* A server config whose client-CA pool is left empty.
ServerTLSConfigEmptyPool(cert, ca) ==
    [cert |-> cert, clientAuth |-> "RequireAndVerifyClientCert", clientCAs |-> {}]

\* ServerTLSConfig(cert, ca)
ServerTLSConfig(cert, ca) ==
    [cert |-> cert, clientAuth |-> "RequireAndVerifyClientCert", clientCAs |-> {ca}]

\* ClientTLSConfig(cert, ca, serverName)
ClientTLSConfig(cert, ca, serverName) ==
    [cert |-> cert, rootCAs |-> {ca}, serverName |-> serverName]

\* x509 chain verification of a leaf: signed by a CA of the pool, and its
\* extended key usage, if it has any, allows the usage.
VerifyChain(cert, pool, usage) ==
    /\ cert.issuer \in pool
    /\ cert.eku = {} \/ usage \in cert.eku

\* crypto/tls handshake between the two configs: the client verifies the
\* server's chain and name, the server the client's chain.
Handshake(server, client) ==
    /\ VerifyChain(server.cert, client.rootCAs, "serverAuth")
    /\ client.serverName \in server.cert.dns
    /\ server.clientAuth = "RequireAndVerifyClientCert" =>
          VerifyChain(client.cert, server.clientCAs, "clientAuth")

\* A leaf is minted for one end.
Mint(role, ca, identity, isServer, isClient) ==
    /\ ~leaf[role].minted
    /\ leaf' = [leaf EXCEPT ![role] = GenerateCert(ca, identity, isServer, isClient)]
    /\ UNCHANGED <<shake, restOfPki>>

\* The two ends build their configs and shake hands.
TLSDial(serverCA, clientCA, serverName) ==
    /\ \A r \in Roles : leaf[r].minted /\ ~leaf[r].err
    /\ ~shake.done
    /\ shake' = [done |-> TRUE,
                 ok |-> Handshake(ServerTLSConfig(leaf["server"].cert, serverCA),
                                  ClientTLSConfig(leaf["client"].cert, clientCA,
                                                  serverName)),
                 serverCA |-> serverCA, clientCA |-> clientCA,
                 serverName |-> serverName]
    /\ UNCHANGED <<leaf, restOfPki>>

NextPki ==
    \/ \E r \in Roles, ca \in CAs, id \in Identities, isServer, isClient \in BOOLEAN :
          Mint(r, ca, id, isServer, isClient)
    \/ \E ca1, ca2 \in CAs, name \in ServerNames : TLSDial(ca1, ca2, name)

SpecPki == Init /\ [][NextPki]_vars

\* ---------------------------------------------------------------- MuxDialer
restOfDial == <<nodeVars, mainVars, grpcVars, lisVars, rpc, actVars, testFailed,
                routeVars, svcVars, dclose>>

InDial(c) == dial[c].pc # "idle"

\* The connection quic.DialAddr returns next.
FreshConn == CHOOSE k \in ConnIds : ~qconn[k].est /\ \A j \in 1..(k - 1) : qconn[j].est

\* MuxConn.Close: the transport is closed, which cancels the scope.
MuxConnClosed(q) == [q EXCEPT !.open = FALSE, !.scope = "cancelled"]

\* removeConn: delete(d.conns, addr), whichever connection the entry holds.
removeConn(addr) == conns' = [conns EXCEPT ![addr] = NoConn]

\* Dial returns to its caller; d holds the locals of the call.
DialReturn(d, result, on) ==
    [d EXCEPT !.pc = "idle", !.typ = "-", !.muxConn = NoConn, !.result = result,
              !.on = on, !.calls = @ + 1]

\* A goroutine calls Dial(ctx, addr, streamType).
DialCall(c, addr, streamType) ==
    /\ ~InDial(c)
    /\ dial[c].calls < MaxCalls
    /\ dial' = [dial EXCEPT ![c] = [NoDial EXCEPT !.pc = "lookup", !.addr = addr,
                                       !.typ = streamType, !.try = 1,
                                       !.calls = dial[c].calls]]
    /\ concurrentDials' = (concurrentDials \/ \E o \in Callers \ {c} : InDial(o))
    /\ UNCHANGED <<conns, qconn, restOfDial>>

\* A getOrCreateConn that never looks for a pooled connection.
GetOrCreateAlwaysDial(c) ==
    /\ dial[c].pc = "lookup"
    /\ dial' = [dial EXCEPT ![c].pc = "dialAddr"]
    /\ UNCHANGED <<conns, qconn, concurrentDials, restOfDial>>

\* A getOrCreateConn that keeps d.mu from its first critical section until
\* its connection is stored: no other call gets the lock meanwhile.
GetOrCreateLookupHoldsLock(c) ==
    /\ dial[c].pc = "lookup"
    /\ \A o \in Callers \ {c} : dial[o].pc \notin {"dialAddr", "insert"}
    /\ dial' = [dial EXCEPT ![c] =
                  IF conns[dial[c].addr] # NoConn
                  THEN [@ EXCEPT !.pc = "open", !.muxConn = conns[dial[c].addr]]
                  ELSE [@ EXCEPT !.pc = "dialAddr"]]
    /\ UNCHANGED <<conns, qconn, concurrentDials, restOfDial>>

\* getOrCreateConn, first critical section: reuse the pooled connection or
\* go on to dial.
GetOrCreateLookup(c) ==
    /\ dial[c].pc = "lookup"
    /\ dial' = [dial EXCEPT ![c] =
                  IF conns[dial[c].addr] # NoConn
                  THEN [@ EXCEPT !.pc = "open", !.muxConn = conns[dial[c].addr]]
                  ELSE [@ EXCEPT !.pc = "dialAddr"]]
    /\ UNCHANGED <<conns, qconn, concurrentDials, restOfDial>>

\* quic.DialAddr succeeds; NewMuxConn(qconn).
DialAddrOk(c) ==
    /\ dial[c].pc = "dialAddr"
    /\ \E k \in ConnIds : ~qconn[k].est
    /\ qconn' = [qconn EXCEPT ![FreshConn] =
                    [NoQConn EXCEPT !.est = TRUE, !.open = TRUE, !.addr = dial[c].addr]]
    /\ dial' = [dial EXCEPT ![c].pc = "insert", ![c].muxConn = FreshConn,
                            ![c].dials = @ + 1]
    /\ UNCHANGED <<conns, concurrentDials, restOfDial>>

\* quic.DialAddr fails: getOrCreateConn and Dial return the error.
DialAddrFail(c) ==
    /\ dial[c].pc = "dialAddr"
    /\ dial' = [dial EXCEPT ![c] =
                  DialReturn([@ EXCEPT !.dials = @ + 1], "err", NoConn)]
    /\ UNCHANGED <<conns, qconn, concurrentDials, restOfDial>>

\* A getOrCreateConn that stores its connection without a second look.
GetOrCreateInsertNoRecheck(c) ==
    /\ dial[c].pc = "insert"
    /\ conns' = [conns EXCEPT ![dial[c].addr] = dial[c].muxConn]
    /\ qconn' = [qconn EXCEPT ![dial[c].muxConn].monitor = "waiting"]
    /\ dial' = [dial EXCEPT ![c].pc = "open"]
    /\ UNCHANGED <<concurrentDials, restOfDial>>

\* getOrCreateConn, second critical section: if another goroutine created
\* the entry, close ours and use theirs; else store ours and start the
\* goroutine that monitors it.
GetOrCreateInsert(c) ==
    /\ dial[c].pc = "insert"
    /\ LET addr == dial[c].addr
           ours == dial[c].muxConn
       IN  IF conns[addr] # NoConn
           THEN /\ qconn' = [qconn EXCEPT ![ours] = MuxConnClosed(@)]
                /\ dial' = [dial EXCEPT ![c].pc = "open", ![c].muxConn = conns[addr]]
                /\ UNCHANGED conns
           ELSE /\ conns' = [conns EXCEPT ![addr] = ours]
                /\ qconn' = [qconn EXCEPT ![ours].monitor = "waiting"]
                /\ dial' = [dial EXCEPT ![c].pc = "open"]
    /\ UNCHANGED <<concurrentDials, restOfDial>>

\* Where Dial goes when OpenStream fails: evict and retry after the first
\* failure, even after the second.
AfterOpenFailureAlwaysRetry(try) == "evict"

\* Where Dial goes when OpenStream fails: evict and retry after the first
\* failure, return the error after the second.
AfterOpenFailure(try) == IF try = 1 THEN "evict" ELSE "return"

\* muxConn.OpenStream(ctx, streamType): opens a sub-stream on an open
\* transport, fails on a closed one.
OpenStream(c) ==
    /\ dial[c].pc = "open"
    /\ LET k == dial[c].muxConn
           opened == [dial[c] EXCEPT !.opens = @ + 1]
       IN  dial' = [dial EXCEPT ![c] =
                 IF qconn[k].open
                 THEN DialReturn(opened, "ok", k)
                 ELSE IF AfterOpenFailure(dial[c].try) = "evict"
                      THEN [opened EXCEPT !.pc = "evict"]
                      ELSE DialReturn(opened, "err", NoConn)]
    /\ UNCHANGED <<conns, qconn, concurrentDials, restOfDial>>

\* d.removeConn(addr) of Dial, then the second getOrCreateConn.
Evict(c) ==
    /\ dial[c].pc = "evict"
    /\ removeConn(dial[c].addr)
    /\ dial' = [dial EXCEPT ![c].pc = "lookup", ![c].try = @ + 1]
    /\ UNCHANGED <<qconn, concurrentDials, restOfDial>>

\* The peer closes a connection, or the transport fails: its scope fires.
ConnDies(k) ==
    /\ qconn[k].est
    /\ qconn[k].open
    /\ qconn' = [qconn EXCEPT ![k] = [@ EXCEPT !.open = FALSE, !.scope = "fired"]]
    /\ UNCHANGED <<conns, dial, concurrentDials, restOfDial>>

\* A monitor goroutine that returns without removing the entry.
MonitorKeepsEntry(k) ==
    /\ qconn[k].monitor = "waiting"
    /\ qconn[k].scope # "live"
    /\ qconn' = [qconn EXCEPT ![k].monitor = "returned"]
    /\ UNCHANGED <<conns, dial, concurrentDials, restOfDial>>

\* The monitor goroutine: <-muxConn.Context().Done(); d.removeConn(addr).
Monitor(k) ==
    /\ qconn[k].monitor = "waiting"
    /\ qconn[k].scope # "live"
    /\ removeConn(qconn[k].addr)
    /\ qconn' = [qconn EXCEPT ![k].monitor = "returned"]
    /\ UNCHANGED <<dial, concurrentDials, restOfDial>>

\* The pooled connections.
Pooled == {conns[a] : a \in {b \in Addrs : conns[b] # NoConn}}

\* A Close that closes the connections and leaves the entries in the map.
DialerCloseKeepsEntries(lastErr) ==
    /\ dclose.calls < MaxDialerCloses
    /\ Pooled = {} => lastErr = "nil"
    /\ qconn' = [k \in ConnIds |->
                    IF k \in Pooled THEN MuxConnClosed(qconn[k]) ELSE qconn[k]]
    /\ dclose' = [calls |-> dclose.calls + 1, last |-> Pooled,
                  ever |-> dclose.ever \cup Pooled, ret |-> lastErr]
    /\ UNCHANGED <<conns, dial, concurrentDials, nodeVars, mainVars, grpcVars,
                   lisVars, rpc, actVars, testFailed, routeVars, svcVars>>

\* MuxDialer.Close, under d.mu: conn.Close() and delete(d.conns, addr) for
\* every entry; lastErr is the last error a conn.Close() returned, nil if
\* there was none.
DialerClose(lastErr) ==
    /\ dclose.calls < MaxDialerCloses
    /\ Pooled = {} => lastErr = "nil"
    /\ qconn' = [k \in ConnIds |->
                    IF k \in Pooled THEN MuxConnClosed(qconn[k]) ELSE qconn[k]]
    /\ conns' = [a \in Addrs |-> NoConn]
    /\ dclose' = [calls |-> dclose.calls + 1, last |-> Pooled,
                  ever |-> dclose.ever \cup Pooled, ret |-> lastErr]
    /\ UNCHANGED <<dial, concurrentDials, nodeVars, mainVars, grpcVars,
                   lisVars, rpc, actVars, testFailed, routeVars, svcVars>>

NextDial ==
    \/ \E c \in Callers, a \in Addrs, t \in StreamTypes : DialCall(c, a, t)
    \/ \E c \in Callers : GetOrCreateLookup(c)
    \/ \E c \in Callers : DialAddrOk(c)
    \/ \E c \in Callers : DialAddrFail(c)
    \/ \E c \in Callers : GetOrCreateInsert(c)
    \/ \E c \in Callers : OpenStream(c)
    \/ \E c \in Callers : Evict(c)
    \/ \E k \in ConnIds : ConnDies(k)
    \/ \E k \in ConnIds : Monitor(k)

SpecDial == Init /\ [][NextDial]_vars

\* The monitor goroutines are scheduled.
FairDial == SpecDial /\ \A k \in ConnIds : WF_vars(Monitor(k))

\* Dial calls and Close calls on one dialer.
NextDialClose ==
    \/ NextDial
    \/ \E lastErr \in {"nil", "err"} : DialerClose(lastErr)

SpecDialClose == Init /\ [][NextDialClose]_vars

\* -------------------------------------------------------------- MuxListener
restOfMux == <<nodeVars, mainVars, grpcVars, rpc, actVars, testFailed, dialVars,
               svcVars>>

\* A panic in any goroutine ends the process.
Running == ~panicked

\* The steps of a Close that closes the transport listener first.
closeStepsListenerFirst ==
    <<"lock", "setClosed", "qlClose", "cancel", "channels", "conns">>

\* MuxListener.Close, statement by statement; the mutex is held from "lock"
\* until the last connection is closed.
closeSteps == <<"lock", "setClosed", "cancel", "channels", "conns", "qlClose">>

CloseAt(c, step) ==
    closePc[c].step \in 1..Len(closeSteps) /\ closeSteps[closePc[c].step] = step
CloseDid(c, step) ==
    \E i \in 1..Len(closeSteps) : closeSteps[i] = step /\ closePc[c].step > i
CloseReturned(c) == closePc[c].step > Len(closeSteps)
CloseRunning(c) == closePc[c].step \in 1..Len(closeSteps)

\* l.mu is held by a Close (every other critical section is one step).
MuLocked ==
    \E c \in Closers : CloseRunning(c) /\ CloseDid(c, "lock") /\ ~CloseDid(c, "conns")

\* A goroutine calls Close(); overlap notes that another call is running.
CloseCall(c) ==
    /\ Running
    /\ closePc[c].step = 0
    /\ \A d \in 1..(c - 1) : closePc[d].step > 0
    /\ closePc' = [closePc EXCEPT ![c].step = 1,
                                  ![c].overlap = \E d \in Closers : CloseRunning(d)]
    /\ UNCHANGED <<lisVars, lctx, streams, lconns, loop, peer, strm, acc, panicked,
                   restOfMux>>

\* A Close that goes on whatever l.closed says.
CloseLockIgnoresClosed(c) ==
    /\ Running
    /\ CloseAt(c, "lock")
    /\ ~MuLocked
    /\ closePc' = [closePc EXCEPT ![c].step = @ + 1]
    /\ UNCHANGED <<lisVars, lctx, streams, lconns, loop, peer, strm, acc, panicked,
                   restOfMux>>

\* l.mu.Lock(); if l.closed { l.mu.Unlock(); return nil }
CloseLock(c) ==
    /\ Running
    /\ CloseAt(c, "lock")
    /\ ~MuLocked
    /\ closePc' = IF lClosed
                  THEN [closePc EXCEPT ![c].step = Len(closeSteps) + 1,
                                       ![c].ret = "nil"]
                  ELSE [closePc EXCEPT ![c].step = @ + 1]
    /\ UNCHANGED <<lisVars, lctx, streams, lconns, loop, peer, strm, acc, panicked,
                   restOfMux>>

\* l.closed = true
CloseSetClosed(c) ==
    /\ Running
    /\ CloseAt(c, "setClosed")
    /\ lClosed' = TRUE
    /\ closePc' = [closePc EXCEPT ![c].step = @ + 1]
    /\ UNCHANGED <<qlClosed, lctx, streams, lconns, loop, peer, strm, acc, panicked,
                   restOfMux>>

\* l.cancel()
CloseCancel(c) ==
    /\ Running
    /\ CloseAt(c, "cancel")
    /\ lctx' = TRUE
    /\ closePc' = [closePc EXCEPT ![c].step = @ + 1]
    /\ UNCHANGED <<lisVars, streams, lconns, loop, peer, strm, acc, panicked,
                   restOfMux>>

\* for _, ch := range l.streams { close(ch) }: one iteration, in map order;
\* the close of a closed channel panics.
CloseChannel(c, t) ==
    /\ Running
    /\ CloseAt(c, "channels")
    /\ t \notin closePc[c].chans
    /\ IF streams[t].closed
       THEN /\ panicked' = TRUE
            /\ UNCHANGED <<streams, closePc>>
       ELSE /\ streams' = [streams EXCEPT ![t].closed = TRUE]
            /\ closePc' = [closePc EXCEPT
                              ![c].chans = @ \cup {t},
                              ![c].step = IF closePc[c].chans \cup {t} = StreamTypes
                                          THEN @ + 1 ELSE @]
            /\ UNCHANGED panicked
    /\ UNCHANGED <<lisVars, lctx, lconns, loop, peer, strm, acc, restOfMux>>

\* for conn := range l.conns { conn.Close() }: one iteration.
CloseConn(c, k) ==
    /\ Running
    /\ CloseAt(c, "conns")
    /\ k \in lconns
    /\ peer[k].open
    /\ peer' = [peer EXCEPT ![k].open = FALSE]
    /\ UNCHANGED <<lisVars, lctx, streams, lconns, closePc, loop, strm, acc, panicked,
                   restOfMux>>

\* The range over l.conns is done: l.mu.Unlock()
CloseUnlock(c) ==
    /\ Running
    /\ CloseAt(c, "conns")
    /\ \A k \in lconns : ~peer[k].open
    /\ closePc' = [closePc EXCEPT ![c].step = @ + 1]
    /\ UNCHANGED <<lisVars, lctx, streams, lconns, loop, peer, strm, acc, panicked,
                   restOfMux>>

\* return l.ql.Close()
CloseTransport(c) ==
    /\ Running
    /\ CloseAt(c, "qlClose")
    /\ qlClosed' = TRUE
    /\ closePc' = [closePc EXCEPT ![c].step = @ + 1, ![c].ret = "ql.Close()"]
    /\ UNCHANGED <<lClosed, lctx, streams, lconns, loop, peer, strm, acc, panicked,
                   restOfMux>>

\* A peer completes the handshake of a new transport connection.
PeerConnects(k) ==
    /\ Running
    /\ ~qlClosed
    /\ peer[k].st = "none"
    /\ peer' = [peer EXCEPT ![k] = [NoPeer EXCEPT !.st = "dialed", !.open = TRUE]]
    /\ UNCHANGED <<lisVars, lctx, streams, lconns, closePc, loop, strm, acc, panicked,
                   restOfMux>>

\* A peer opens sub-stream x on connection k and writes the type byte b.
PeerOpensStream(x, k, b) ==
    /\ Running
    /\ peer[k].open
    /\ strm[x].st = "none"
    /\ \A y \in 1..(x - 1) : strm[y].st # "none"
    /\ strm' = [strm EXCEPT ![x] = [NoStrm EXCEPT !.conn = k, !.typ = b,
                                       !.st = "inbound"]]
    /\ UNCHANGED <<lisVars, lctx, streams, lconns, closePc, loop, peer, acc, panicked,
                   restOfMux>>

\* acceptLoop: l.ql.Accept(l.ctx) returns a connection.
LoopAccept(k) ==
    /\ Running
    /\ loop.pc = "accept"
    /\ ~lctx /\ ~qlClosed
    /\ peer[k].st = "dialed"
    /\ peer[k].open
    /\ loop' = [pc |-> "register", conn |-> k]
    /\ peer' = [peer EXCEPT ![k].st = "accepted"]
    /\ UNCHANGED <<lisVars, lctx, streams, lconns, closePc, strm, acc, panicked,
                   restOfMux>>

\* acceptLoop: l.ql.Accept(l.ctx) fails (scope cancelled, listener closed);
\* the loop returns.
LoopAcceptFails ==
    /\ Running
    /\ loop.pc = "accept"
    /\ lctx \/ qlClosed
    /\ loop' = [pc |-> "returned", conn |-> NoConn]
    /\ UNCHANGED <<lisVars, lctx, streams, lconns, closePc, peer, strm, acc, panicked,
                   restOfMux>>

\* An acceptLoop that registers the connection whatever l.closed says.
LoopRegisterIgnoresClosed ==
    /\ Running
    /\ loop.pc = "register"
    /\ ~MuLocked
    /\ lconns' = lconns \cup {loop.conn}
    /\ peer' = [peer EXCEPT ![loop.conn].hpc = "accept"]
    /\ loop' = [pc |-> "accept", conn |-> NoConn]
    /\ UNCHANGED <<lisVars, lctx, streams, closePc, strm, acc, panicked, restOfMux>>

\* acceptLoop: under l.mu, close the connection and return if l.closed, else
\* add it to l.conns and start handleConnection.
LoopRegister ==
    /\ Running
    /\ loop.pc = "register"
    /\ ~MuLocked
    /\ IF lClosed
       THEN /\ peer' = [peer EXCEPT ![loop.conn].open = FALSE]
            /\ loop' = [pc |-> "returned", conn |-> NoConn]
            /\ UNCHANGED lconns
       ELSE /\ lconns' = lconns \cup {loop.conn}
            /\ peer' = [peer EXCEPT ![loop.conn].hpc = "accept"]
            /\ loop' = [pc |-> "accept", conn |-> NoConn]
    /\ UNCHANGED <<lisVars, lctx, streams, closePc, strm, acc, panicked, restOfMux>>

\* handleConnection: muxConn.AcceptStream(l.ctx) returns sub-stream x with
\* its type byte read.
HandleAcceptStream(k, x) ==
    /\ Running
    /\ peer[k].hpc = "accept"
    /\ peer[k].open /\ ~lctx
    /\ strm[x].conn = k
    /\ strm[x].st = "inbound"
    /\ strm[x].typ # NoTypeByte
    /\ strm' = [strm EXCEPT ![x].st = "accepted", ![x].reads = @ + 1]
    /\ peer' = [peer EXCEPT ![k].hpc = "lookup", ![k].cur = x]
    /\ UNCHANGED <<lisVars, lctx, streams, lconns, closePc, loop, acc, panicked,
                   restOfMux>>

\* handleConnection: muxConn.AcceptStream(l.ctx) accepts sub-stream x, fails
\* to read its type byte, closes the stream and returns the error; the loop
\* is left for the deferred function.
HandleAcceptStreamReadFails(k, x) ==
    /\ Running
    /\ peer[k].hpc = "accept"
    /\ peer[k].open /\ ~lctx
    /\ strm[x].conn = k
    /\ strm[x].st = "inbound"
    /\ strm[x].typ = NoTypeByte
    /\ strm' = [strm EXCEPT ![x].st = "closed"]
    /\ peer' = [peer EXCEPT ![k].hpc = "exit"]
    /\ UNCHANGED <<lisVars, lctx, streams, lconns, closePc, loop, acc, panicked,
                   restOfMux>>

\* handleConnection: AcceptStream fails (connection closed, scope
\* cancelled); the loop is left for the deferred function.
HandleAcceptStreamFails(k) ==
    /\ Running
    /\ peer[k].hpc = "accept"
    /\ ~peer[k].open \/ lctx
    /\ peer' = [peer EXCEPT ![k].hpc = "exit"]
    /\ UNCHANGED <<lisVars, lctx, streams, lconns, closePc, loop, strm, acc, panicked,
                   restOfMux>>

\* A routing that crosses the two channels.
StreamChanCrossed(b) == IF b = "control" THEN "a2a" ELSE "control"

\* The channel handleConnection sends a stream of type byte b to.
StreamChanOf(b) == b

\* A handleConnection that returns on a stream of unknown type.
HandleLookupGivesUp(k) ==
    /\ Running
    /\ peer[k].hpc = "lookup"
    /\ ~MuLocked
    /\ IF strm[peer[k].cur].typ \in StreamTypes
       THEN /\ peer' = [peer EXCEPT ![k].hpc = "select"]
            /\ UNCHANGED strm
       ELSE /\ strm' = [strm EXCEPT ![peer[k].cur].st = "closed"]
            /\ peer' = [peer EXCEPT ![k].hpc = "exit", ![k].cur = NoStream]
    /\ UNCHANGED <<lisVars, lctx, streams, lconns, closePc, loop, acc, panicked,
                   restOfMux>>

\* handleConnection: streamChan, ok := l.streams[streamType] under l.mu; an
\* unknown type closes the stream and continues the loop.
HandleLookup(k) ==
    /\ Running
    /\ peer[k].hpc = "lookup"
    /\ ~MuLocked
    /\ IF strm[peer[k].cur].typ \in StreamTypes
       THEN /\ peer' = [peer EXCEPT ![k].hpc = "select"]
            /\ UNCHANGED strm
       ELSE /\ strm' = [strm EXCEPT ![peer[k].cur].st = "closed"]
            /\ peer' = [peer EXCEPT ![k].hpc = "accept", ![k].cur = NoStream]
    /\ UNCHANGED <<lisVars, lctx, streams, lconns, closePc, loop, acc, panicked,
                   restOfMux>>

\* A handleConnection whose send does not wait: a stream that finds the
\* channel full is closed.
HandleSendDrops(k) ==
    /\ Running
    /\ peer[k].hpc = "select"
    /\ LET x == peer[k].cur
           ch == StreamChanOf(strm[x].typ)
       IN  IF streams[ch].closed
           THEN /\ panicked' = TRUE
                /\ UNCHANGED <<streams, strm, peer>>
           ELSE /\ IF Len(streams[ch].buf) < ChanCap
                   THEN /\ streams' = [streams EXCEPT ![ch].buf = Append(@, x)]
                        /\ strm' = [strm EXCEPT ![x].st = "queued"]
                   ELSE /\ strm' = [strm EXCEPT ![x].st = "closed"]
                        /\ UNCHANGED streams
                /\ peer' = [peer EXCEPT ![k].hpc = "accept", ![k].cur = NoStream]
                /\ UNCHANGED panicked
    /\ UNCHANGED <<lisVars, lctx, lconns, closePc, loop, acc, restOfMux>>

\* handleConnection: the select takes `case streamChan <- conn`; on a closed
\* channel the send panics.
HandleSend(k) ==
    /\ Running
    /\ peer[k].hpc = "select"
    /\ LET x == peer[k].cur
           ch == StreamChanOf(strm[x].typ)
       IN  IF streams[ch].closed
           THEN /\ panicked' = TRUE
                /\ UNCHANGED <<streams, strm, peer>>
           ELSE /\ Len(streams[ch].buf) < ChanCap
                /\ streams' = [streams EXCEPT ![ch].buf = Append(@, x)]
                /\ strm' = [strm EXCEPT ![x].st = "queued"]
                /\ peer' = [peer EXCEPT ![k].hpc = "accept", ![k].cur = NoStream]
                /\ UNCHANGED panicked
    /\ UNCHANGED <<lisVars, lctx, lconns, closePc, loop, acc, restOfMux>>

\* handleConnection: the select takes `case <-l.ctx.Done()`: conn.Close();
\* return.
HandleDone(k) ==
    /\ Running
    /\ peer[k].hpc = "select"
    /\ lctx
    /\ strm' = [strm EXCEPT ![peer[k].cur].st = "closed"]
    /\ peer' = [peer EXCEPT ![k].hpc = "exit", ![k].cur = NoStream]
    /\ UNCHANGED <<lisVars, lctx, streams, lconns, closePc, loop, acc, panicked,
                   restOfMux>>

\* handleConnection's deferred function: delete(l.conns, muxConn) under l.mu.
HandleExit(k) ==
    /\ Running
    /\ peer[k].hpc = "exit"
    /\ ~MuLocked
    /\ lconns' = lconns \ {k}
    /\ peer' = [peer EXCEPT ![k].hpc = "returned"]
    /\ UNCHANGED <<lisVars, lctx, streams, closePc, loop, strm, acc, panicked,
                   restOfMux>>

\* streamListener.Accept on the handle of Listener(t): the channel is looked
\* up under l.mu.
AcceptCall(a, t) ==
    /\ Running
    /\ acc[a].pc = "idle"
    /\ ~MuLocked
    /\ acc' = [acc EXCEPT ![a] = [NoAccept EXCEPT !.pc = "select", !.typ = t]]
    /\ UNCHANGED <<lisVars, lctx, streams, lconns, closePc, loop, peer, strm,
                   panicked, restOfMux>>

\* A receive that leaves the value in the channel.
ReceivePeek(ch) == ch

\* `conn, ok := <-streamChan`: what is left in the channel.
Receive(ch) == [ch EXCEPT !.buf = Tail(@)]

\* Accept: the select takes `case conn, ok := <-streamChan`: a queued stream
\* is returned, a closed and empty channel gives net.ErrClosed.
AcceptReceive(a) ==
    /\ Running
    /\ acc[a].pc = "select"
    /\ LET ch == streams[acc[a].typ]
       IN  IF ch.buf # <<>>
           THEN /\ acc' = [acc EXCEPT ![a].pc = "returned", ![a].got = Head(ch.buf)]
                /\ streams' = [streams EXCEPT ![acc[a].typ] = Receive(ch)]
                /\ strm' = [strm EXCEPT ![Head(ch.buf)].st = "returned",
                                        ![Head(ch.buf)].returns = @ + 1]
           ELSE /\ ch.closed
                /\ acc' = [acc EXCEPT ![a].pc = "returned", ![a].err = "ErrClosed"]
                /\ UNCHANGED <<streams, strm>>
    /\ UNCHANGED <<lisVars, lctx, lconns, closePc, loop, peer, panicked, restOfMux>>

\* Accept: the select takes `case <-l.mux.ctx.Done()`: net.ErrClosed.
AcceptDone(a) ==
    /\ Running
    /\ acc[a].pc = "select"
    /\ lctx
    /\ acc' = [acc EXCEPT ![a].pc = "returned", ![a].err = "ErrClosed"]
    /\ UNCHANGED <<lisVars, lctx, streams, lconns, closePc, loop, peer, strm,
                   panicked, restOfMux>>

NextMux ==
    \/ \E c \in Closers : CloseCall(c)
    \/ \E c \in Closers : CloseLock(c)
    \/ \E c \in Closers : CloseSetClosed(c)
    \/ \E c \in Closers : CloseCancel(c)
    \/ \E c \in Closers, t \in StreamTypes : CloseChannel(c, t)
    \/ \E c \in Closers, k \in Peers : CloseConn(c, k)
    \/ \E c \in Closers : CloseUnlock(c)
    \/ \E c \in Closers : CloseTransport(c)
    \/ \E k \in Peers : PeerConnects(k)
    \/ \E x \in StreamIds, k \in Peers, b \in TypeBytes \cup {NoTypeByte} :
          PeerOpensStream(x, k, b)
    \/ \E k \in Peers : LoopAccept(k)
    \/ LoopAcceptFails
    \/ LoopRegister
    \/ \E k \in Peers, x \in StreamIds : HandleAcceptStream(k, x)
    \/ \E k \in Peers, x \in StreamIds : HandleAcceptStreamReadFails(k, x)
    \/ \E k \in Peers : HandleAcceptStreamFails(k)
    \/ \E k \in Peers : HandleLookup(k)
    \/ \E k \in Peers : HandleSend(k)
    \/ \E k \in Peers : HandleDone(k)
    \/ \E k \in Peers : HandleExit(k)
    \/ \E a \in Acceptors, t \in StreamTypes : AcceptCall(a, t)
    \/ \E a \in Acceptors : AcceptReceive(a)
    \/ \E a \in Acceptors : AcceptDone(a)

SpecMux == Init /\ [][NextMux]_vars

\* Every goroutine of the listener that can take a step takes one: Close
\* once called, the accept loop, the connection handlers and the Accept
\* calls.  Peers and the callers of Close and Accept owe nothing.
FairMux ==
    /\ SpecMux
    /\ \A c \in Closers :
          /\ WF_vars(CloseLock(c) \/ CloseSetClosed(c) \/ CloseCancel(c)
                        \/ CloseUnlock(c) \/ CloseTransport(c))
          /\ WF_vars(\E t \in StreamTypes : CloseChannel(c, t))
          /\ WF_vars(\E k \in Peers : CloseConn(c, k))
    /\ WF_vars(LoopAcceptFails \/ LoopRegister)
    /\ \A k \in Peers : WF_vars(HandleAcceptStreamFails(k) \/ HandleLookup(k)
                                  \/ HandleDone(k) \/ HandleExit(k)
                                  \/ \E x \in StreamIds :
                                        HandleAcceptStreamReadFails(k, x))
    /\ \A a \in Acceptors : WF_vars(AcceptReceive(a) \/ AcceptDone(a))

\* ------------------------------------------------- a full acceptor channel
\* Sub-streams the peer opened earlier on its connection: all of type
\* control, routed to the control channel and not accepted by anyone yet;
\* one slot of the channel is left.
Backlog == {0 - i : i \in 1..(ChanCap - 1)}
BacklogConn == 1

\* The listener after a peer connected, was registered and had the streams
\* of Backlog routed, with no Accept call made so far.
InitBacklog ==
    /\ state = "STARTING"
    /\ activeTasks = 0
    /\ taskPc = [c \in Tasks |-> "idle"]
    /\ mainPc = "start"
    /\ runResult = "none"
    /\ ctxDone = FALSE
    /\ errChan = <<>>
    /\ wg = 0
    /\ servePc = [s \in Servers |-> "none"]
    /\ serveErr = [s \in Servers |-> FALSE]
    /\ quit = [s \in Servers |-> FALSE]
    /\ done = [s \in Servers |-> FALSE]
    /\ draining = [s \in Servers |-> FALSE]
    /\ lClosed = FALSE
    /\ qlClosed = FALSE
    /\ rpc = [r \in Rpcs |-> IdleRpc]
    /\ act = [a \in Acts |-> [ip |-> 0, phase |-> "start"]]
    /\ args = [t \in Threads |-> NoArgs]
    /\ calls = [t \in Threads |-> 0]
    /\ testFailed = FALSE
    /\ NewMuxDialer
    /\ NewServices
    /\ lctx = FALSE
    /\ streams = [t \in StreamTypes |->
                    [buf |-> IF t = "control"
                             THEN [i \in 1..(ChanCap - 1) |-> 0 - i]
                             ELSE <<>>,
                     closed |-> FALSE]]
    /\ lconns = {BacklogConn}
    /\ closePc = [c \in Closers |-> NoClose]
    /\ loop = [pc |-> "accept", conn |-> NoConn]
    /\ peer = [k \in Peers |->
                  IF k = BacklogConn
                  THEN [st |-> "accepted", open |-> TRUE, hpc |-> "accept",
                        cur |-> NoStream]
                  ELSE NoPeer]
    /\ strm = [x \in StreamIds \cup Backlog |->
                  IF x \in Backlog
                  THEN [conn |-> BacklogConn, typ |-> "control", st |-> "queued",
                        reads |-> 1, returns |-> 0]
                  ELSE NoStrm]
    /\ acc = [a \in Acceptors |-> NoAccept]
    /\ panicked = FALSE

\* The peer opens further streams, goroutines call Accept, one goroutine
\* calls Close.
NextBacklog ==
    \/ \E x \in StreamIds, b \in TypeBytes : PeerOpensStream(x, BacklogConn, b)
    \/ \E x \in StreamIds : HandleAcceptStream(BacklogConn, x)
    \/ HandleAcceptStreamFails(BacklogConn)
    \/ HandleLookup(BacklogConn)
    \/ HandleSend(BacklogConn)
    \/ HandleDone(BacklogConn)
    \/ HandleExit(BacklogConn)
    \/ \E a \in Acceptors, t \in StreamTypes : AcceptCall(a, t)
    \/ \E a \in Acceptors : AcceptReceive(a)
    \/ \E a \in Acceptors : AcceptDone(a)
    \/ CloseCall(1)
    \/ CloseLock(1)
    \/ CloseSetClosed(1)
    \/ CloseCancel(1)
    \/ \E t \in StreamTypes : CloseChannel(1, t)
    \/ CloseConn(1, BacklogConn)
    \/ CloseUnlock(1)
    \/ CloseTransport(1)
    \/ LoopAcceptFails

SpecBacklog == InitBacklog /\ [][NextBacklog]_vars

\* The goroutines of the listener are scheduled; a select with a ready case
\* takes one.
FairBacklog ==
    /\ SpecBacklog
    /\ WF_vars(CloseLock(1) \/ CloseSetClosed(1) \/ CloseCancel(1)
                  \/ CloseUnlock(1) \/ CloseTransport(1))
    /\ WF_vars(\E t \in StreamTypes : CloseChannel(1, t))
    /\ WF_vars(CloseConn(1, BacklogConn))
    /\ WF_vars(HandleAcceptStreamFails(BacklogConn) \/ HandleLookup(BacklogConn)
                  \/ HandleExit(BacklogConn))
    /\ WF_vars(HandleSend(BacklogConn) \/ HandleDone(BacklogConn))

\* ------------------------------------------------ concurrent task tracking
\* Goroutines that each bracket a unit of work with IncrementTasks and
\* DecrementTasks, as many as the counter's cap admits at once.
Workers == {<<"worker", i>> : i \in 1..MaxCount}

restOfWorker == <<mainVars, grpcVars, lisVars, rpc, act, args, testFailed, muxVars>>

\* A worker calls IncrementTasks: the Add, then the CompareAndSwap.
WorkerIncrement(c) ==
    /\ \/ calls[c] < MaxRounds /\ IncrementTasksAdd(c, "idle")
       \/ IncrementTasksCas(c, "busy")
    /\ UNCHANGED <<calls, restOfWorker>>

\* A worker calls DecrementTasks; calls[c] counts the pairs it has completed.
WorkerDecrement(c) ==
    /\ \/ DecrementTasksAdd(c, "busy")
       \/ DecrementTasksCas(c)
    /\ calls' = [calls EXCEPT ![c] = IF taskPc'[c] = "idle" THEN @ + 1 ELSE @]
    /\ UNCHANGED restOfWorker

\* s := NewState("test"); s.SetReady(); no task runs yet.
InitTasks ==
    /\ state = "READY"
    /\ activeTasks = 0
    /\ taskPc = [c \in Workers |-> "idle"]
    /\ mainPc = "start"
    /\ runResult = "none"
    /\ ctxDone = FALSE
    /\ errChan = <<>>
    /\ wg = 0
    /\ servePc = [s \in Servers |-> "none"]
    /\ serveErr = [s \in Servers |-> FALSE]
    /\ quit = [s \in Servers |-> FALSE]
    /\ done = [s \in Servers |-> FALSE]
    /\ draining = [s \in Servers |-> FALSE]
    /\ lClosed = FALSE
    /\ qlClosed = FALSE
    /\ rpc = [r \in Rpcs |-> IdleRpc]
    /\ act = [a \in Acts |-> [ip |-> 0, phase |-> "start"]]
    /\ args = [t \in Threads |-> NoArgs]
    /\ calls = [c \in Workers |-> 0]
    /\ testFailed = FALSE
    /\ NewMuxDialer
    /\ ListenMux
    /\ NewServices

NextTasks ==
    \/ \E c \in Workers : WorkerIncrement(c)
    \/ \E c \in Workers : WorkerDecrement(c)

SpecTasks == InitTasks /\ [][NextTasks]_vars

\* ------------------------------------------- shutdown goroutines, programs
\* A goroutine of the shutdown path runs a straight-line program; act[a].ip
\* is the instruction it executes next (0: not started, Len + 1: returned)
\* and act[a].phase its place inside a call that blocks.
Ins(op, srv) == [op |-> op, srv |-> srv]
StopOp(graceful) == IF graceful THEN "GracefulStop" ELSE "Stop"

\* The order of the Unit that hung: both servers are stopped before the
\* listener is closed.
stopServersStopFirst(graceful) ==
    <<Ins("cancel", "-"), Ins(StopOp(graceful), "control"),
      Ins(StopOp(graceful), "a2a"), Ins("Close", "-")>>

\* server.stopServers: cancel, close the listener, then stop both servers.
stopServers(graceful) ==
    <<Ins("cancel", "-"), Ins("Close", "-"),
      Ins(StopOp(graceful), "control"), Ins(StopOp(graceful), "a2a")>>

\* A triggerShutdown that marks the node stopped before it stops the
\* servers.
triggerShutdownStoppedFirst(graceful) ==
    <<Ins("enter", "-"), Ins("SetStopped", "-")>> \o stopServers(graceful)

\* server.triggerShutdown: SetDraining and the watchdog ("enter"),
\* stopServers, SetStopped.
triggerShutdown(graceful) ==
    <<Ins("enter", "-")>> \o stopServers(graceful) \o <<Ins("SetStopped", "-")>>

\* server.shutdown, run by the signal goroutine.
shutdown == triggerShutdown(TRUE) \o <<Ins("wgWait", "-")>>

\* The watchdog: time.Sleep(timeout), then Stop on both servers.
watchdog == <<Ins("Sleep", "-"), Ins("Stop", "control"), Ins("Stop", "a2a")>>

\* TestWrongCleanupOrderHangs: the goroutine that stops before closing, and
\* the test body that waits, closes the listener and waits for the goroutine.
wrongOrder ==
    <<Ins("GracefulStop", "control"), Ins("Close", "-"), Ins("closeDone", "-")>>
testBody == <<Ins("select", "-"), Ins("Close", "-"), Ins("awaitDone", "-")>>

Prog(a) ==
    IF a[2] = "wd" THEN (IF a[1] = Tst THEN testBody ELSE watchdog)
    ELSE IF a[1] = Sig THEN shutdown
    ELSE IF a[1] = Tst THEN wrongOrder
    ELSE triggerShutdown(args[a[1]].graceful)

Started(a) == act[a].ip >= 1
Returned(a) == act[a].ip > Len(Prog(a))
Cur(a) == IF Started(a) /\ ~Returned(a) THEN Prog(a)[act[a].ip] ELSE Ins("none", "-")
At(a, op) == Alive /\ Cur(a).op = op
Next1(a) == [ip |-> act[a].ip + 1, phase |-> "start"]
Advance(a) == act' = [act EXCEPT ![a] = Next1(a)]
SetPhase(a, ph) == act' = [act EXCEPT ![a].phase = ph]

\* Instruction op of goroutine a has been executed.
Past(a, op) == \E i \in 1..Len(Prog(a)) : Prog(a)[i].op = op /\ act[a].ip > i

\* The shutdown orders received so far.
Rejected(r) == rpc[r].resp.set /\ ~rpc[r].resp.accepted
ShutdownOrders ==
    Cardinality({r \in SdRpcs : rpc[r].pc # "idle" /\ ~Rejected(r)})
        + (IF act[<<Sig, "sd">>].ip > 0 THEN 1 ELSE 0)

\* SIGINT or SIGTERM is delivered: the signal goroutine calls srv.shutdown(),
\* which calls triggerShutdown(true, 30*time.Second, "signal").
Signal ==
    /\ Alive
    /\ ShutdownOrders < MaxShutdowns
    /\ act[<<Sig, "sd">>].ip = 0
    /\ act' = [act EXCEPT ![<<Sig, "sd">>] = [ip |-> 1, phase |-> "start"]]
    /\ args' = [args EXCEPT ![Sig] = [graceful |-> TRUE,
                                      timeout |-> DurationOfSeconds(TimeoutThirty),
                                      reason |-> "signal"]]
    /\ UNCHANGED <<nodeVars, mainVars, grpcVars, lisVars, rpc, calls, testFailed, muxVars>>

\* A triggerShutdown that starts the watchdog for every graceful shutdown.
WatchdogWantedAnyTimeout(graceful, timeout) == graceful

\* Whether triggerShutdown starts the watchdog.
WatchdogWanted(graceful, timeout) == graceful /\ IsPositive(timeout)

\* triggerShutdown is entered: SetDraining, and the watchdog goroutine.
Enter(t) ==
    /\ At(<<t, "sd">>, "enter")
    /\ calls' = [calls EXCEPT ![t] = calls[t] + 1]
    /\ SetDraining
    /\ act' = [act EXCEPT ![<<t, "sd">>] = Next1(<<t, "sd">>),
                          ![<<t, "wd">>] =
                              IF WatchdogWanted(args[t].graceful, args[t].timeout)
                              THEN [ip |-> 1, phase |-> "start"] ELSE @]
    /\ UNCHANGED <<activeTasks, taskPc, mainVars, grpcVars, lisVars, rpc, args, testFailed, muxVars>>

\* s.cancel()
Cancel(a) ==
    /\ At(a, "cancel")
    /\ ctxDone' = TRUE
    /\ Advance(a)
    /\ UNCHANGED <<nodeVars, mainPc, runResult, errChan, wg, grpcVars, lisVars,
                   rpc, args, calls, testFailed, muxVars>>

\* MuxConn.Close: the transport connection is closed.
MuxConnClose(c) == [c EXCEPT !.connOpen = FALSE]

\* MuxListener.Close: return if closed already; else, under l.mu, set
\* closed, cancel the scope, close the acceptor channels and close every
\* live connection, then close the transport listener.
Close(a) ==
    /\ At(a, "Close")
    /\ IF lClosed
       THEN UNCHANGED <<lClosed, qlClosed, rpc>>
       ELSE /\ lClosed' = TRUE
            /\ qlClosed' = TRUE
            /\ rpc' = [r \in Rpcs |-> MuxConnClose(rpc[r])]
    /\ Advance(a)
    /\ UNCHANGED <<nodeVars, mainVars, grpcVars, args, calls, testFailed, muxVars>>

\* ------------------------------------------------------- grpc.Server.stop
IsStop(a) == Alive /\ Cur(a).op \in {"GracefulStop", "Stop"}

\* stop: s.quit.Fire() and closeListenersLocked, which calls the Close of
\* the listener Serve was given.
StopFire(a) ==
    /\ IsStop(a)
    /\ act[a].phase = "start"
    /\ quit' = [quit EXCEPT ![Cur(a).srv] = TRUE]
    /\ SetPhase(a, "serveWait")
    /\ UNCHANGED <<nodeVars, mainVars, servePc, serveErr, done, draining, lisVars,
                   rpc, args, calls, testFailed, muxVars>>

\* s.serveWG.Wait() returns once the Serve goroutine left its accept loop.
ServeWGZero(s) == servePc[s] # "accept"

\* A transport of server s after drainAllServerTransportsLocked
\* (GracefulStop: it closes once it carries no RPC) or
\* closeServerTransportsLocked (Stop: it closes).
TransportAfterStop(c, op) ==
    IF op = "GracefulStop" /\ c.pc \in {"handling", "replying"}
    THEN c ELSE [c EXCEPT !.connOpen = FALSE]

\* s.mu is held by a GracefulStop that waits in s.handlersWG.Wait(); the
\* wait for s.conns (s.cv.Wait()) releases it.
MuHeld(s) == \E a \in Acts : Cur(a).srv = s /\ act[a].phase = "handlerWait"

\* stop after serveWG.Wait(): take s.mu, drain or close the server's
\* transports.  The closed transports of Stop leave s.conns at once, Stop
\* has no handlers to wait for, and it returns (defer s.done.Fire()).
StopTransports(a) ==
    /\ IsStop(a)
    /\ act[a].phase = "serveWait"
    /\ ServeWGZero(Cur(a).srv)
    /\ ~MuHeld(Cur(a).srv)
    /\ rpc' = [r \in Rpcs |-> IF rpc[r].srv = Cur(a).srv /\ rpc[r].pc # "idle"
                              THEN TransportAfterStop(rpc[r], Cur(a).op)
                              ELSE rpc[r]]
    /\ IF Cur(a).op = "GracefulStop"
       THEN /\ draining' = [draining EXCEPT ![Cur(a).srv] = TRUE]
            /\ SetPhase(a, "connWait")
            /\ UNCHANGED done
       ELSE /\ done' = [done EXCEPT ![Cur(a).srv] = TRUE]
            /\ Advance(a)
            /\ UNCHANGED draining
    /\ UNCHANGED <<nodeVars, mainVars, servePc, serveErr, quit, lisVars,
                   args, calls, testFailed, muxVars>>

NoConns(s) == \A r \in Rpcs : ~(rpc[r].connOpen /\ rpc[r].srv = s)
NoHandlers(s) == \A r \in Rpcs : ~(InHandler(r) /\ rpc[r].srv = s)

\* GracefulStop: `for len(s.conns) != 0 { s.cv.Wait() }` is over.
StopConnsGone(a) ==
    /\ IsStop(a)
    /\ act[a].phase = "connWait"
    /\ NoConns(Cur(a).srv)
    /\ ~MuHeld(Cur(a).srv)
    /\ SetPhase(a, "handlerWait")
    /\ UNCHANGED <<nodeVars, mainVars, grpcVars, lisVars, rpc, args, calls, testFailed, muxVars>>

\* GracefulStop: s.handlersWG.Wait() is over, GracefulStop returns
\* (defer s.done.Fire()).
StopHandlersGone(a) ==
    /\ IsStop(a)
    /\ act[a].phase = "handlerWait"
    /\ NoHandlers(Cur(a).srv)
    /\ done' = [done EXCEPT ![Cur(a).srv] = TRUE]
    /\ Advance(a)
    /\ UNCHANGED <<nodeVars, mainVars, servePc, serveErr, quit, draining, lisVars,
                   rpc, args, calls, testFailed, muxVars>>

\* s.state.SetStopped() at the end of triggerShutdown.
MarkStopped(a) ==
    /\ At(a, "SetStopped")
    /\ SetStopped
    /\ Advance(a)
    /\ UNCHANGED <<activeTasks, taskPc, mainVars, grpcVars, lisVars, rpc, args,
                   calls, testFailed, muxVars>>

\* s.wg.Wait() in server.shutdown.
WgWait(a) ==
    /\ At(a, "wgWait")
    /\ wg = 0
    /\ Advance(a)
    /\ UNCHANGED <<nodeVars, mainVars, grpcVars, lisVars, rpc, args, calls, testFailed, muxVars>>

\* time.Sleep(timeout) returns.
Sleep(a) ==
    /\ At(a, "Sleep")
    /\ Advance(a)
    /\ UNCHANGED <<nodeVars, mainVars, grpcVars, lisVars, rpc, args, calls, testFailed, muxVars>>

\* ------------------------------------------------------ Serve goroutines
\* The branches of `select { case <-s.ctx.Done(): case errChan <- err: }`
\* that are ready: TRUE sends the error.
ErrSelectChoices ==
    (IF ctxDone THEN {FALSE} ELSE {}) \cup (IF Len(errChan) < 2 THEN {TRUE} ELSE {})

\* The goroutine run started ends after Serve returned err (nil: no select).
ServeGoroutineEnds(s, err) ==
    /\ \E send \in (IF err THEN ErrSelectChoices ELSE {FALSE}) :
          errChan' = IF send THEN Append(errChan, s) ELSE errChan
    /\ servePc' = [servePc EXCEPT ![s] = "exited"]
    /\ wg' = wg - 1

\* grpc.Server.Serve is entered: ErrServerStopped if the server was stopped
\* already, else the accept loop.
ServeEnter(s) ==
    /\ Alive
    /\ servePc[s] = "spawned"
    /\ IF quit[s]
       THEN ServeGoroutineEnds(s, TRUE)
       ELSE /\ servePc' = [servePc EXCEPT ![s] = "accept"]
            /\ UNCHANGED <<errChan, wg>>
    /\ UNCHANGED <<nodeVars, mainPc, runResult, ctxDone, serveErr, quit, done,
                   draining, lisVars, rpc, actVars, testFailed, muxVars>>

\* An Accept that the Close of its own listener releases too, as the
\* Accept of a TCP listener is.
AcceptReleasedByStop(s) == lClosed \/ quit[s]

\* streamListener.Accept returns net.ErrClosed: the acceptor channel is
\* closed or the listener scope is cancelled.
AcceptReleased(s) == lClosed

\* Serve's loop ends on the Accept error: nil if quit has fired, else the error.
AcceptFail(s) ==
    /\ Alive
    /\ servePc[s] = "accept"
    /\ AcceptReleased(s)
    /\ servePc' = [servePc EXCEPT ![s] = "deferred"]
    /\ serveErr' = [serveErr EXCEPT ![s] = ~quit[s]]
    /\ UNCHANGED <<nodeVars, mainVars, quit, done, draining, lisVars, rpc, actVars, testFailed, muxVars>>

\* Serve's deferred function: if quit has fired, wait for s.done.
ServeMayReturn(s) == servePc[s] = "deferred" /\ (quit[s] => done[s])

\* Serve returns into run's goroutine.
ServeReturn(s) ==
    /\ Alive
    /\ ServeMayReturn(s)
    /\ ServeGoroutineEnds(s, serveErr[s])
    /\ UNCHANGED <<nodeVars, mainPc, runResult, ctxDone, serveErr, quit, done,
                   draining, lisVars, rpc, actVars, testFailed, muxVars>>

\* ---------------------------------------------------------- server.run
\* s.state.SetReady()
RunSetReady ==
    /\ mainPc = "start"
    /\ SetReady
    /\ mainPc' = "spawn"
    /\ UNCHANGED <<activeTasks, taskPc, runResult, ctxDone, errChan, wg, grpcVars,
                   lisVars, rpc, actVars, testFailed, muxVars>>

\* s.wg.Add(1); go func() { ... Serve(...) ... }(), for both servers.
RunSpawn ==
    /\ mainPc = "spawn"
    /\ wg' = wg + Cardinality(Servers)
    /\ servePc' = [s \in Servers |-> "spawned"]
    /\ mainPc' = "select"
    /\ UNCHANGED <<nodeVars, runResult, ctxDone, errChan, serveErr, quit, done,
                   draining, lisVars, rpc, actVars, testFailed, muxVars>>

\* The branches of `select { case <-s.ctx.Done(): case err := <-errChan: }`
\* that are ready.
RunSelectChoices ==
    (IF ctxDone THEN {"nil"} ELSE {}) \cup (IF errChan # <<>> THEN {"err"} ELSE {})

\* What is left of an RPC when the process exits: a handler still running
\* is gone with its connection.
KilledRpc(c) ==
    IF c.pc \in {"handling", "replying"} THEN [IdleRpc EXCEPT !.pc = "killed"]
    ELSE IF c.pc = "idle" THEN c
    ELSE [IdleRpc EXCEPT !.pc = c.pc]

Killed == [ip |-> 0, phase |-> "killed"]

\* run returns: nil on cancellation, the error taken from errChan
\* otherwise.  ServeCmd.Run returns it to main and main returns: the process
\* exits, and its goroutines, channels and connections end with it.  The
\* node state and the servers are left as they were at that moment.
RunSelect ==
    /\ mainPc = "select"
    /\ \E res \in RunSelectChoices : runResult' = res
    /\ mainPc' = "exited"
    /\ errChan' = <<>>
    /\ wg' = 0
    /\ servePc' = [s \in Servers |-> "killed"]
    /\ serveErr' = [s \in Servers |-> FALSE]
    /\ rpc' = [r \in Rpcs |-> KilledRpc(rpc[r])]
    /\ act' = [a \in Acts |-> Killed]
    /\ args' = [t \in Threads |-> NoArgs]
    /\ UNCHANGED <<nodeVars, ctxDone, quit, done, draining, lisVars, calls, testFailed, muxVars>>

\* ------------------------------------------------------------------ RPCs
\* A client's stream of type s is accepted: acceptLoop registers the
\* connection, handleConnection routes the stream to the acceptor channel,
\* the Serve loop's Accept takes it and gRPC, unless quit has fired (then
\* it closes the connection), starts the handler.
RpcArrive(r, s, req) ==
    /\ Alive
    /\ rpc[r].pc = "idle"
    /\ ~lClosed
    /\ servePc[s] = "accept"
    /\ ~quit[s]
    /\ rpc' = [rpc EXCEPT ![r] = [pc |-> "handling", srv |-> s, connOpen |-> TRUE,
                                  req |-> req, resp |-> NoResp]]
    /\ UNCHANGED <<nodeVars, mainVars, grpcVars, lisVars, actVars, testFailed, muxVars>>

\* Requests with and without a watchdog, and a forced one.
ShutdownReqs ==
    { [graceful |-> TRUE, timeoutSeconds |-> TimeoutThirty, reason |-> "maintenance"],
      [graceful |-> TRUE, timeoutSeconds |-> TimeoutZero, reason |-> "maintenance"],
      [graceful |-> FALSE, timeoutSeconds |-> TimeoutZero, reason |-> "maintenance"] }

\* A client calls ControlService.Shutdown: one more order, unless the node
\* is past accepting it.
ShutdownRpcArrive(r, req) ==
    /\ ShutdownOrders < MaxShutdowns \/ ShutdownRejects(state)
    /\ RpcArrive(r, "control", req)

ServerActs == (SdRpcs \cup {Sig}) \X {"sd", "wd"}

Next ==
    \/ RunSetReady
    \/ RunSpawn
    \/ RunSelect
    \/ Signal
    \/ \E t \in SdRpcs \cup {Sig} : Enter(t)
    \/ \E a \in ServerActs : Cancel(a)
    \/ \E a \in ServerActs : Close(a)
    \/ \E a \in ServerActs : StopFire(a)
    \/ \E a \in ServerActs : StopTransports(a)
    \/ \E a \in ServerActs : StopConnsGone(a)
    \/ \E a \in ServerActs : StopHandlersGone(a)
    \/ \E a \in ServerActs : MarkStopped(a)
    \/ \E a \in ServerActs : WgWait(a)
    \/ \E a \in ServerActs : Sleep(a)
    \/ \E s \in Servers : ServeEnter(s)
    \/ \E s \in Servers : AcceptFail(s)
    \/ \E s \in Servers : ServeReturn(s)
    \/ \E r \in SdRpcs, req \in ShutdownReqs : ShutdownRpcArrive(r, req)
    \/ \E r \in WorkRpcs : RpcArrive(r, "a2a", NoReq)
    \/ \E r \in SdRpcs : Shutdown(r)
    \/ \E r \in Rpcs : HandlerReturn(r)

Spec == Init /\ [][Next]_vars

\* Every goroutine that can take a step takes one; the timer of the
\* watchdog fires.  Signals, clients and the handlers of their RPCs
\* (other than Shutdown, which has no blocking call) owe nothing.
FairSpec ==
    /\ Spec
    /\ WF_vars(RunSetReady) /\ WF_vars(RunSpawn) /\ WF_vars(RunSelect)
    /\ \A t \in SdRpcs \cup {Sig} : WF_vars(Enter(t))
    /\ \A a \in ServerActs :
          /\ WF_vars(Cancel(a)) /\ WF_vars(Close(a))
          /\ WF_vars(StopFire(a)) /\ WF_vars(StopTransports(a))
          /\ WF_vars(StopConnsGone(a)) /\ WF_vars(StopHandlersGone(a))
          /\ WF_vars(MarkStopped(a)) /\ WF_vars(WgWait(a)) /\ WF_vars(Sleep(a))
    /\ \A s \in Servers :
          WF_vars(ServeEnter(s)) /\ WF_vars(AcceptFail(s)) /\ WF_vars(ServeReturn(s))
    /\ \A r \in SdRpcs : WF_vars(Shutdown(r)) /\ WF_vars(HandlerReturn(r))

\* ------------------------------------------ a signal and a Shutdown RPC
\* SIGINT or SIGTERM is delivered, whatever the node is doing: the signal
\* goroutine waits on sigChan only.
SignalAnyTime ==
    /\ Alive
    /\ act[<<Sig, "sd">>].ip = 0
    /\ act' = [act EXCEPT ![<<Sig, "sd">>] = [ip |-> 1, phase |-> "start"]]
    /\ args' = [args EXCEPT ![Sig] = [graceful |-> TRUE,
                                      timeout |-> DurationOfSeconds(TimeoutThirty),
                                      reason |-> "signal"]]
    /\ UNCHANGED <<nodeVars, mainVars, grpcVars, lisVars, rpc, calls, testFailed, muxVars>>

\* The request of the second order: a forced shutdown.
ForcedReq == [graceful |-> FALSE, timeoutSeconds |-> TimeoutZero, reason |-> "maintenance"]

\* The daemon with a signal and Shutdown RPCs that arrive at any time.
NextOrders ==
    \/ RunSetReady
    \/ RunSpawn
    \/ RunSelect
    \/ SignalAnyTime
    \/ \E t \in SdRpcs \cup {Sig} : Enter(t)
    \/ \E a \in ServerActs : Cancel(a)
    \/ \E a \in ServerActs : Close(a)
    \/ \E a \in ServerActs : StopFire(a)
    \/ \E a \in ServerActs : StopTransports(a)
    \/ \E a \in ServerActs : StopConnsGone(a)
    \/ \E a \in ServerActs : StopHandlersGone(a)
    \/ \E a \in ServerActs : MarkStopped(a)
    \/ \E a \in ServerActs : WgWait(a)
    \/ \E a \in ServerActs : Sleep(a)
    \/ \E s \in Servers : ServeEnter(s)
    \/ \E s \in Servers : AcceptFail(s)
    \/ \E s \in Servers : ServeReturn(s)
    \/ \E r \in SdRpcs : RpcArrive(r, "control", ForcedReq)
    \/ \E r \in SdRpcs : Shutdown(r)
    \/ \E r \in SdRpcs : HandlerReturn(r)

SpecOrders == Init /\ [][NextOrders]_vars

\* ------------------------------------------- TestWrongCleanupOrderHangs
TestActs == {Tst} \X {"sd", "wd"}

\* close(done) was executed.
DoneClosed == Past(<<Tst, "sd">>, "closeDone")

\* close(done), the last statement of the goroutine.
CloseDone(a) ==
    /\ At(a, "closeDone")
    /\ Advance(a)
    /\ UNCHANGED <<nodeVars, mainVars, grpcVars, lisVars, rpc, args, calls, testFailed, muxVars>>

\* The branches of `select { case <-done: case <-time.After(time.Second): }`
\* that are ready.
TestSelectChoices == {"timer"} \cup (IF DoneClosed THEN {"done"} ELSE {})

\* The select of the test body: t.Fatal if done is closed, else go on to
\* close the listener.
TestSelect(a) ==
    /\ At(a, "select")
    /\ \E branch \in TestSelectChoices :
          IF branch = "done"
          THEN /\ testFailed' = TRUE
               /\ act' = [act EXCEPT ![a].ip = Len(Prog(a)) + 1]
          ELSE /\ Advance(a)
               /\ UNCHANGED testFailed
    /\ UNCHANGED <<nodeVars, mainVars, grpcVars, lisVars, rpc, args, calls,
                   muxVars>>

\* <-done in the test body.
AwaitDone(a) ==
    /\ At(a, "awaitDone")
    /\ DoneClosed
    /\ Advance(a)
    /\ UNCHANGED <<nodeVars, mainVars, grpcVars, lisVars, rpc, args, calls, testFailed, muxVars>>

\* Serve returns in `go controlServer.Serve(...)`: the result is dropped.
TestServeReturn(s) ==
    /\ ServeMayReturn(s)
    /\ servePc' = [servePc EXCEPT ![s] = "exited"]
    /\ UNCHANGED <<nodeVars, mainVars, serveErr, quit, done, draining, lisVars,
                   rpc, actVars, testFailed, muxVars>>

\* `go controlServer.Serve(listener.ControlListener())` reaches its accept
\* loop.
TestServeEnter(s) ==
    /\ servePc[s] = "spawned"
    /\ servePc' = [servePc EXCEPT ![s] = "accept"]
    /\ UNCHANGED <<nodeVars, mainVars, serveErr, quit, done, draining, lisVars,
                   rpc, actVars, testFailed, muxVars>>

\* time.Sleep(50 * time.Millisecond) "for the server to start accepting" is
\* over: the goroutine is started, the test body goes to its select.
TestSleep ==
    /\ servePc["control"] = "accept"
    /\ \A a \in TestActs : act[a].ip = 0
    /\ act' = [a \in Acts |-> IF a \in TestActs THEN [ip |-> 1, phase |-> "start"]
                              ELSE act[a]]
    /\ UNCHANGED <<nodeVars, mainVars, grpcVars, lisVars, rpc, args, calls, testFailed, muxVars>>

\* The test after `go controlServer.Serve(...)`.
InitWrongOrder ==
    /\ state = "STARTING"
    /\ activeTasks = 0
    /\ taskPc = [c \in Tasks |-> "idle"]
    /\ mainPc = "start"
    /\ runResult = "none"
    /\ ctxDone = FALSE
    /\ errChan = <<>>
    /\ wg = 0
    /\ servePc = [s \in Servers |-> IF s = "control" THEN "spawned" ELSE "none"]
    /\ serveErr = [s \in Servers |-> FALSE]
    /\ quit = [s \in Servers |-> FALSE]
    /\ done = [s \in Servers |-> FALSE]
    /\ draining = [s \in Servers |-> FALSE]
    /\ lClosed = FALSE
    /\ qlClosed = FALSE
    /\ rpc = [r \in Rpcs |-> IdleRpc]
    /\ act = [a \in Acts |-> [ip |-> 0, phase |-> "start"]]
    /\ args = [t \in Threads |-> NoArgs]
    /\ calls = [t \in Threads |-> 0]
    /\ testFailed = FALSE
    /\ NewMuxDialer
    /\ ListenMux
    /\ NewServices

NextWrongOrder ==
    \/ TestServeEnter("control")
    \/ TestSleep
    \/ \E a \in TestActs : StopFire(a)
    \/ \E a \in TestActs : StopTransports(a)
    \/ \E a \in TestActs : StopConnsGone(a)
    \/ \E a \in TestActs : StopHandlersGone(a)
    \/ \E a \in TestActs : Close(a)
    \/ \E a \in TestActs : CloseDone(a)
    \/ \E a \in TestActs : TestSelect(a)
    \/ \E a \in TestActs : AwaitDone(a)
    \/ AcceptFail("control")
    \/ TestServeReturn("control")
    \/ \E r \in WorkRpcs : RpcArrive(r, "control", NoReq)
    \/ \E r \in WorkRpcs : HandlerReturn(r)

SpecWrongOrder == InitWrongOrder /\ [][NextWrongOrder]_vars

\* The goroutines of the test and of gRPC take their steps, and the
\* handlers of testControlServer, which do not block, return.
FairWrongOrder ==
    /\ SpecWrongOrder
    /\ WF_vars(TestServeEnter("control")) /\ WF_vars(TestSleep)
    /\ \A a \in TestActs :
          /\ WF_vars(StopFire(a)) /\ WF_vars(StopTransports(a))
          /\ WF_vars(StopConnsGone(a)) /\ WF_vars(StopHandlersGone(a))
          /\ WF_vars(Close(a)) /\ WF_vars(CloseDone(a))
          /\ WF_vars(TestSelect(a)) /\ WF_vars(AwaitDone(a))
    /\ WF_vars(AcceptFail("control")) /\ WF_vars(TestServeReturn("control"))
    /\ \A r \in WorkRpcs : WF_vars(HandlerReturn(r))

\* ---------------------------------------------------- package control, claims
Accepted(r) == rpc[r].resp.set /\ rpc[r].resp.accepted

\* The handler of r takes its step, from the node state it reads.
HandlesIn(r, states) ==
    rpc[r].pc = "handling" /\ rpc'[r].pc = "replying" /\ state \in states

\* C8: a Shutdown RPC handled while the node is DRAINING or STOPPED is
\* answered accepted=false with a non-empty rejection reason and no RPC
\* error; it starts no shutdown function, then or later, and leaves the node
\* state as it was.
ShutdownRefusedWhenStopping ==
    /\ [][\A r \in SdRpcs :
            HandlesIn(r, {"DRAINING", "STOPPED"})
                => /\ rpc'[r].resp.set
                   /\ ~rpc'[r].resp.accepted
                   /\ rpc'[r].resp.rejectionReason # ""
                   /\ ~rpc'[r].resp.err
                   /\ state' = state
                   /\ <<act, args, calls>>' = <<act, args, calls>>]_vars
    /\ [](\A r \in SdRpcs : Rejected(r) => act[<<r, "sd">>].ip = 0 /\ calls[r] = 0)

\* C8: a Shutdown RPC was refused by a node that is STOPPED.
RefusedWhileStopped ==
    \E r \in SdRpcs : rpc[r].pc = "replying" /\ Rejected(r) /\ state = "STOPPED"

\* C9: a Shutdown RPC handled in STARTING, READY or BUSY is answered
\* accepted=true without error, and the shutdown function is eventually
\* invoked, exactly once, with the request's graceful flag and reason and a
\* timeout of exactly timeoutSeconds seconds.
ShutdownAcceptedRunsFn ==
    /\ [][\A r \in SdRpcs :
            HandlesIn(r, {"STARTING", "READY", "BUSY"})
                => rpc'[r].resp.set /\ rpc'[r].resp.accepted /\ ~rpc'[r].resp.err]_vars
    /\ [](\A r \in SdRpcs :
            Accepted(r) =>
                /\ args[r].graceful = rpc[r].req.graceful
                /\ args[r].reason = rpc[r].req.reason
                /\ SignExtend(args[r].timeout, WideLimbs)
                       = ExactProduct(rpc[r].req.timeoutSeconds, Second)
                /\ calls[r] <= 1)
    /\ \A r \in SdRpcs : Accepted(r) ~> (calls[r] = 1)

\* C10: activeTasks is never negative, whatever the order of the calls of
\* the State methods.
ActiveTasksNeverNegative == activeTasks >= 0

\* ------------------------------------------------------- the daemon, claims
ShutdownThreads == SdRpcs \cup {Sig}

\* The node state may take this step of the lifecycle.
LifecycleStep(from, to) ==
    \/ from = "STARTING" /\ to = "READY"
    \/ from \in {"READY", "BUSY"} /\ to \in {"READY", "BUSY", "DRAINING"}
    \/ from = "DRAINING" /\ to = "STOPPED"

\* C1: the states the node goes through are a prefix of STARTING, READY,
\* any number of BUSY and READY, DRAINING, STOPPED: every change of the state
\* is a step of that sequence, and none leads backward.
StateFollowsLifecycle == [][state' # state => LifecycleStep(state, state')]_vars

\* C2: whenever a goroutine running triggerShutdown -> stopServers is at, or
\* past, its calls of GracefulStop or Stop, MuxListener.Close() has
\* completed: the listener is closed, its acceptor channels with it.
ListenerClosedBeforeStop ==
    \A t \in ShutdownThreads :
        (Cur(<<t, "sd">>).op \in {"GracefulStop", "Stop"} \/ Past(<<t, "sd">>, "Close"))
            => lClosed /\ qlClosed

\* C2: stopServers has called GracefulStop on the control server, which now
\* waits for the Serve loop, and the listener is closed.
StopInvokedAfterClose ==
    \E t \in ShutdownThreads :
        /\ Cur(<<t, "sd">>) = Ins("GracefulStop", "control")
        /\ act[<<t, "sd">>].phase = "serveWait"
        /\ lClosed

\* C3: a shutdown entered with graceful = true and timeout > 0 comes to its
\* end, whatever the handlers in flight do: both Serve loops exit, both
\* servers are stopped and the node state is STOPPED.
GracefulShutdownTerminates ==
    \A t \in ShutdownThreads :
        (calls[t] > 0 /\ WatchdogWanted(args[t].graceful, args[t].timeout))
            ~> (/\ state = "STOPPED"
                /\ \A s \in Servers : done[s] /\ servePc[s] = "exited")

\* C5: once the teardown an accepted Shutdown RPC started has closed the
\* listener, the reply of that RPC has reached its caller.
ReplyBeforeTeardown ==
    \A r \in SdRpcs :
        (Accepted(r) /\ Past(<<r, "sd">>, "Close")) => rpc[r].pc = "delivered"

\* The watchdog of some shutdown has woken up.
WatchdogFired == \E t \in ShutdownThreads : Past(<<t, "wd">>, "Sleep")

\* C6: while a graceful shutdown runs, an RPC whose handler has not returned
\* keeps its connection, unless the watchdog has fired.
InFlightKeepsConnection ==
    \A r \in Rpcs :
        (/\ InHandler(r)
         /\ ~rpc[r].connOpen
         /\ \A t \in ShutdownThreads : Started(<<t, "sd">>) => args[t].graceful)
            => WatchdogFired

\* C7: when run() has returned nil, the shutdown is over: both servers are
\* stopped and the node state is STOPPED.
RunReturnsAfterShutdown ==
    (mainPc = "exited" /\ runResult = "nil")
        => (state = "STOPPED" /\ \A s \in Servers : done[s])

\* C4: a GracefulStop that is awaited while the MuxListener is open makes no
\* progress, since the Close of a stream listener does nothing: it stays
\* before its wait for the Serve loop and does not return, and the test
\* never sees done closed in its select.  Once MuxListener.Close() has been
\* called, Accept returns and the GracefulStop completes.
GracefulStopWaitsForListenerClose ==
    /\ [](Cur(<<Tst, "sd">>).op = "GracefulStop" /\ ~lClosed
            => act[<<Tst, "sd">>].phase \in {"start", "serveWait"})
    /\ [](Past(<<Tst, "sd">>, "GracefulStop") => lClosed)
    /\ [](~testFailed)
    /\ lClosed ~> (Past(<<Tst, "sd">>, "GracefulStop") /\ servePc["control"] = "exited")

\* C4: the test body has closed the listener and the GracefulStop that was
\* called before has returned.
GracefulStopReturnedAfterClose ==
    /\ Past(<<Tst, "wd">>, "Close")
    /\ Past(<<Tst, "sd">>, "GracefulStop")
    /\ DoneClosed

\* C33: the root scope is cancelled and the listener is closed only by a
\* triggerShutdown that has set DRAINING; the step that sets STOPPED is taken
\* with the stop calls of that triggerShutdown on both servers returned; and
\* while the state is STOPPED both servers are stopped, the triggerShutdown
\* that set it being past its stop calls.
DrainingFirstStoppedLast ==
    /\ [][\A t \in ShutdownThreads :
            (/\ Cur(<<t, "sd">>).op \in {"cancel", "Close"}
             /\ act'[<<t, "sd">>].ip > act[<<t, "sd">>].ip)
            => calls[t] > 0 /\ Past(<<t, "sd">>, "enter")]_vars
    /\ [][(ctxDone' /\ ~ctxDone) \/ (lClosed' /\ ~lClosed)
            => \E t \in ShutdownThreads : calls[t] > 0]_vars
    /\ [][\A t \in ShutdownThreads :
            (/\ Cur(<<t, "sd">>).op = "SetStopped"
             /\ act'[<<t, "sd">>].ip > act[<<t, "sd">>].ip)
            => /\ Past(<<t, "sd">>, StopOp(args[t].graceful))
               /\ \A s \in Servers : done[s]
               /\ state' = "STOPPED"]_vars
    /\ [](state = "STOPPED" => \A s \in Servers : done[s])
    /\ [](\A t \in ShutdownThreads :
            Past(<<t, "sd">>, "SetStopped") =>
                ~IsStop(<<t, "sd">>) /\ \A s \in Servers : done[s])

\* C33: a triggerShutdown ran to its end: DRAINING was set, the scope is
\* cancelled, the listener closed, both servers stopped, the state STOPPED.
ShutdownRanToStopped ==
    \E t \in ShutdownThreads :
        /\ Past(<<t, "sd">>, "SetStopped")
        /\ calls[t] = 1
        /\ ctxDone /\ lClosed
        /\ \A s \in Servers : done[s]
        /\ state = "STOPPED"

\* The hard stops of shutdown t that have begun: a Stop of its watchdog or
\* of its triggerShutdown.
HardStopIssued(t) ==
    \E a \in {<<t, "sd">>, <<t, "wd">>} : Cur(a).op = "Stop" \/ Past(a, "Stop")

\* C34: triggerShutdown starts the watchdog exactly when graceful is true
\* and the timeout is positive, and nothing else starts it; a graceful
\* shutdown with timeout 0 issues no hard stop and sets STOPPED with no
\* handler running; a shutdown that is not graceful stops both servers with
\* Stop, which waits for no connection and no handler.
WatchdogIffGracefulWithTimeout ==
    /\ [][\A t \in ShutdownThreads :
            /\ calls'[t] > calls[t] =>
                  (Started(<<t, "wd">>)' <=>
                      args[t].graceful /\ IsPositive(args[t].timeout))
            /\ (Started(<<t, "wd">>)' /\ ~Started(<<t, "wd">>)) =>
                  calls'[t] > calls[t]]_vars
    /\ [](\A t \in ShutdownThreads :
            (Started(<<t, "sd">>) /\ args[t].graceful /\ IsZero(args[t].timeout)) =>
                /\ ~HardStopIssued(t)
                /\ Past(<<t, "sd">>, "SetStopped") => \A r \in Rpcs : ~InHandler(r))
    /\ [](\A t \in ShutdownThreads :
            (Started(<<t, "sd">>) /\ ~args[t].graceful) =>
                /\ ~Started(<<t, "wd">>)
                /\ Cur(<<t, "sd">>).op # "GracefulStop"
                /\ act[<<t, "sd">>].phase \notin {"connWait", "handlerWait"})

\* C34: a graceful shutdown with timeout 0 reached STOPPED after an RPC
\* that was in flight at its start, without a watchdog.
GracefulWithoutTimeoutStopped ==
    \E t \in ShutdownThreads :
        /\ args[t].graceful /\ IsZero(args[t].timeout)
        /\ Past(<<t, "sd">>, "SetStopped")
        /\ ~Started(<<t, "wd">>)
        /\ state = "STOPPED"
        /\ \E r \in WorkRpcs : rpc[r].pc # "idle"

\* C34: a shutdown that is not graceful reached STOPPED with a handler
\* still running.
ForcedShutdownLeavesHandler ==
    \E t \in ShutdownThreads :
        /\ Started(<<t, "sd">>) /\ ~args[t].graceful
        /\ Past(<<t, "sd">>, "SetStopped")
        /\ \E r \in WorkRpcs : InHandler(r)

\* C34: a watchdog issued its hard stop.
WatchdogHardStopped ==
    \E t \in ShutdownThreads :
        /\ args[t].graceful /\ IsPositive(args[t].timeout)
        /\ Past(<<t, "wd">>, "Stop")

\* C40: once triggerShutdown has cancelled the root scope, with no server
\* failed before (the servers of the model end their Serve only through a
\* shutdown), run returns nil.
RunReturnsNilOnShutdown ==
    [][(mainPc = "select" /\ mainPc' = "exited" /\ ctxDone
            /\ \E t \in ShutdownThreads : calls[t] > 0)
        => runResult' = "nil"]_vars

\* A shutdown has started: a Shutdown RPC was accepted or the signal
\* goroutine called srv.shutdown().
ShutdownStarted(t) == Started(<<t, "sd">>) \/ calls[t] > 0

\* C36: triggerShutdown is entered at most once in the life of the node:
\* by at most one goroutine, and once by that one.
ShutdownStartsOnce ==
    /\ Cardinality({t \in ShutdownThreads : calls[t] > 0}) <= 1
    /\ \A t \in ShutdownThreads : calls[t] <= 1

\* Shutdown accepts only while no shutdown has started.
AcceptedOnlyBeforeShutdown ==
    [][\A r \in SdRpcs :
            (rpc'[r].resp.set /\ ~rpc[r].resp.set /\ rpc'[r].resp.accepted)
                => \A t \in ShutdownThreads : ~ShutdownStarted(t)]_vars

\* ------------------------------------------------------ task tracking, claims
AllCallsCompleted == \A c \in Workers : taskPc[c] = "idle"

\* C11: starting from READY with no active task, whenever every
\* IncrementTasks and DecrementTasks call of the concurrent workers has
\* completed, the state is READY and activeTasks is 0.
TasksSettleToReady ==
    AllCallsCompleted => state = "READY" /\ activeTasks = 0

\* No IncrementTasks or DecrementTasks call is between its Add and its
\* CompareAndSwap.
NoTaskCallInProgress == \A c \in Workers : taskPc[c] \in {"idle", "busy"}

\* C35: with no shutdown begun (the state is READY or BUSY throughout),
\* whenever no IncrementTasks or DecrementTasks call is in progress the
\* state is BUSY exactly if activeTasks > 0 and READY exactly if it is 0.
StateAgreesWithCounter ==
    NoTaskCallInProgress =>
        /\ state = "BUSY" <=> activeTasks > 0
        /\ state = "READY" <=> activeTasks = 0

\* C11: every worker has completed all its pairs of calls, after the pairs
\* overlapped (the counter is back at 0 and the state READY).
AllWorkersDone ==
    /\ AllCallsCompleted
    /\ \A c \in Workers : calls[c] = MaxRounds
    /\ state = "READY"
    /\ activeTasks = 0

\* ------------------------------------------------------------ MuxDialer, claims
Established == {k \in ConnIds : qconn[k].est}
StillOpen == {k \in ConnIds : qconn[k].est /\ qconn[k].open}
NoConnDied == \A k \in ConnIds : qconn[k].scope # "fired"
ReturnedOk(c) == ~InDial(c) /\ dial[c].result = "ok"
\* The Dial calls were for address a: the last call of every caller, and
\* every connection established so far.
AllDialsFor(a) ==
    /\ \A c \in Callers : dial[c].addr \in {"-", a}
    /\ \A k \in Established : qconn[k].addr = a

\* C12: when Dial calls for one address overlapped on the empty pool and all
\* of them have returned a stream (no connection having died), exactly one
\* of the connections they established is open, it is the pool entry, every
\* caller's stream is on it and every other connection is closed.
RaceLeavesOneConn ==
    \A a \in Addrs :
        (/\ concurrentDials /\ NoConnDied /\ AllDialsFor(a)
         /\ \A c \in Callers : ReturnedOk(c)) =>
            \E k \in Established :
                /\ StillOpen = {k}
                /\ conns[a] = k
                /\ \A c \in Callers : dial[c].on = k

\* C12: two overlapping calls both dialed, both returned a stream and the
\* connection of the loser is closed.
LoserClosedItsConn ==
    /\ concurrentDials
    /\ NoConnDied
    /\ \A c \in Callers : ReturnedOk(c) /\ dial[c].dials = 1
    /\ Cardinality(Established) = 2
    /\ Cardinality(StillOpen) = 1

\* C13: after Dial calls for one address that never overlapped, with no
\* connection having died and at least one call having returned a stream,
\* one connection was
\* established, it is the pool entry, and every returned stream is on it.
SequentialDialsShareConn ==
    \A a \in Addrs :
        (/\ ~concurrentDials /\ NoConnDied /\ AllDialsFor(a)
         /\ \E c \in Callers : ReturnedOk(c)) =>
            /\ Cardinality(Established) = 1
            /\ conns[a] \in Established
            /\ \A c \in Callers : ReturnedOk(c) => dial[c].on \in Established

\* C13: every caller returned a stream, one call after the other, and only
\* the first one dialed.
SecondDialReused ==
    /\ ~concurrentDials
    /\ NoConnDied
    /\ \A c \in Callers : ReturnedOk(c)
    /\ \E c \in Callers : dial[c].dials = 0 /\ dial[c].opens = 1
    /\ Cardinality(Established) = 1

\* C15: a Dial call makes at most two OpenStream attempts and at most two
\* transport dials; it evicts only after its first OpenStream failed, and
\* is on its second attempt only after one failed OpenStream.
DialRetriesOnce ==
    \A c \in Callers :
        /\ dial[c].opens <= 2
        /\ dial[c].dials <= 2
        /\ dial[c].pc = "evict" => dial[c].opens = 1 /\ dial[c].try = 1
        /\ (InDial(c) /\ dial[c].try = 2) => dial[c].opens = 1

\* C15: a Dial call returned the error of its second OpenStream after it
\* dialed twice.
SecondFailureReturned ==
    \E c \in Callers :
        /\ ~InDial(c)
        /\ dial[c].result = "err"
        /\ dial[c].opens = 2
        /\ dial[c].dials = 2

\* C14: whenever the scope of the pooled connection of an address has fired,
\* the pool eventually stops mapping the address to that connection.
DeadConnLeavesPool ==
    \A k \in ConnIds, a \in Addrs :
        (conns[a] = k /\ qconn[k].scope = "fired") ~> (conns[a] # k)

\* C14: a Dial call returned a stream on a connection dialed after the
\* scope of an earlier pooled connection fired and its monitor removed it.
FreshConnAfterDeath ==
    \E k \in ConnIds, c \in Callers :
        /\ qconn[k].scope = "fired"
        /\ qconn[k].monitor = "returned"
        /\ dial[c].pc = "idle"
        /\ dial[c].result = "ok"
        /\ dial[c].on > k
        /\ conns[qconn[k].addr] = dial[c].on

\* C22: a Close of the dialer closes every connection that is in the pool,
\* touches no other connection and leaves the pool empty; on an empty pool
\* (as right after another Close) it closes nothing, and returns nil.
DialerCloseEmptiesPool ==
    [][dclose'.calls = dclose.calls + 1 =>
          /\ \A a \in Addrs : conns'[a] = NoConn
          /\ \A k \in ConnIds :
                IF \E a \in Addrs : conns[a] = k
                THEN ~qconn'[k].open /\ qconn'[k].scope # "live" /\ k \in dclose'.last
                ELSE qconn'[k] = qconn[k] /\ k \notin dclose'.last
          /\ (\A a \in Addrs : conns[a] = NoConn) =>
                qconn' = qconn /\ dclose'.last = {} /\ dclose'.ret = "nil"]_vars

\* C22: a first Close closed the pooled connections of two addresses, a
\* second Close closed nothing and returned nil.
SecondDialerCloseDidNothing ==
    /\ dclose.calls = 2
    /\ dclose.last = {}
    /\ dclose.ret = "nil"
    /\ Cardinality(dclose.ever) = 2
    /\ \A k \in dclose.ever : ~qconn[k].open
    /\ \A a \in Addrs : conns[a] = NoConn

\* The next step of the Dial call of goroutine c.
DialStep(c) ==
    \/ GetOrCreateLookup(c)
    \/ DialAddrOk(c)
    \/ DialAddrFail(c)
    \/ GetOrCreateInsert(c)
    \/ OpenStream(c)
    \/ Evict(c)

\* C32: while a Dial call is in quic.DialAddr or in OpenStream, every
\* other Dial call in progress can take its next step, the critical
\* sections under d.mu included.
DialsNotSerialized ==
    \A c, o \in Callers :
        (c # o /\ dial[c].pc \in {"dialAddr", "open"} /\ InDial(o))
            => ENABLED DialStep(o)

\* C32: a Dial call for one address is in its first quic.DialAddr, and a
\* call for the other address, made meanwhile, dialed, stored its connection
\* and returned a stream.
OtherDialCompleted ==
    \E c, o \in Callers :
        /\ dial[c].pc = "dialAddr" /\ dial[c].dials = 0
        /\ concurrentDials
        /\ ReturnedOk(o)
        /\ dial[o].addr # dial[c].addr
        /\ dial[o].dials = 1
        /\ conns[dial[o].addr] = dial[o].on

\* C37: a step that takes connection k out of the pool is the return of
\* the monitor goroutine of k or the eviction by a Dial call whose
\* OpenStream failed on k.
EntryRemovedForItsConn ==
    [][\A a \in Addrs :
          LET k == conns[a] IN
          (k # NoConn /\ conns'[a] # k) =>
              \/ qconn[k].monitor = "waiting" /\ qconn'[k].monitor = "returned"
              \/ \E c \in Callers :
                    /\ dial[c].pc = "evict" /\ dial'[c].pc # "evict"
                    /\ dial[c].muxConn = k]_vars

\* C38: whenever no Dial call is in progress, every connection the dialer
\* established is the pool entry of its address or is closed.
NoConnLeaked ==
    (\A c \in Callers : ~InDial(c)) =>
        \A k \in Established : conns[qconn[k].addr] = k \/ ~qconn[k].open

\* ---------------------------------------------------------- MuxListener, claims
GotStream(a) == acc[a].pc = "returned" /\ acc[a].got # NoStream

\* C16: a stream returned by Accept on the handle of type T carries the type
\* byte T, and that byte was read once.
AcceptReturnsOwnType ==
    \A a \in Acceptors :
        GotStream(a) =>
            /\ strm[acc[a].got].typ = acc[a].typ
            /\ strm[acc[a].got].reads = 1

\* C16: a control handle and an a2a handle have each returned a stream.
BothTypesReturned ==
    \E a, b \in Acceptors :
        /\ GotStream(a) /\ acc[a].typ = "control"
        /\ GotStream(b) /\ acc[b].typ = "a2a"

\* C17: no sub-stream is returned by more than one Accept call.
StreamReturnedOnce ==
    /\ \A x \in StreamIds : strm[x].returns <= 1
    /\ \A a, b \in Acceptors : (GotStream(a) /\ GotStream(b) /\ a # b) =>
                                  acc[a].got # acc[b].got

\* C17: two Accept calls on handles of the same type have each returned a
\* stream.
TwoHandlesOneType ==
    \E a, b \in Acceptors :
        a # b /\ GotStream(a) /\ GotStream(b) /\ acc[a].typ = acc[b].typ

UnknownType(x) == strm[x].st # "none" /\ strm[x].typ \in TypeBytes \ StreamTypes

\* C18: a sub-stream of unknown type is never queued or returned, and the
\* step of handleConnection that meets it closes the stream, leaves the
\* connection open and in the live-set, and goes back to AcceptStream.
UnknownTypeKeepsConn ==
    /\ [](\A x \in StreamIds : UnknownType(x) => strm[x].st \notin {"queued", "returned"})
    /\ [][\A k \in Peers :
            (/\ peer[k].hpc = "lookup"
             /\ UnknownType(peer[k].cur)
             /\ peer'[k].hpc # "lookup")
            => /\ strm'[peer[k].cur].st = "closed"
               /\ peer'[k].open = peer[k].open
               /\ (k \in lconns) = (k \in lconns')
               /\ peer'[k].hpc = "accept"]_vars

\* C18: after a stream of unknown type was closed, a later stream of a
\* known type on the same connection was returned by Accept, the connection
\* being open and in the live-set.
RoutedAfterUnknown ==
    \E x, y \in StreamIds, a \in Acceptors :
        /\ x < y
        /\ UnknownType(x) /\ strm[x].st = "closed"
        /\ strm[y].conn = strm[x].conn
        /\ GotStream(a) /\ acc[a].got = y
        /\ strm[x].conn \in lconns
        /\ peer[strm[x].conn].open

\* C19: an Accept call that is blocked while Close has been called
\* eventually returns (net.ErrClosed, or a stream queued before the
\* channels were closed).
BlockedAcceptReturns ==
    \A a \in Acceptors :
        (acc[a].pc = "select" /\ \E c \in Closers : closePc[c].step > 0)
            ~> (acc[a].pc = "returned")

AllChannelsClosed == \A t \in StreamTypes : streams[t].closed

\* C20: Close cancels the scope only after it marked the listener closed,
\* closes a channel only after the scope is cancelled, closes a tracked
\* connection only after every channel is closed, and closes the transport
\* listener only after every tracked connection is closed.
CloseStepsInOrder ==
    /\ lctx => lClosed
    /\ (\E t \in StreamTypes : streams[t].closed) => lctx
    /\ (\E k \in lconns : ~peer[k].open) => AllChannelsClosed
    /\ qlClosed => AllChannelsClosed /\ \A k \in lconns : ~peer[k].open

\* C20: Close has returned after it closed a tracked connection and the
\* transport listener.
CloseClosedEverything ==
    /\ \E c \in Closers : CloseReturned(c)
    /\ qlClosed
    /\ AllChannelsClosed
    /\ \E k \in Peers : peer[k].hpc # "none" /\ ~peer[k].open


\* ------------------------------------------------------------- Ping, claims
\* C23: a Ping reply carries the request's timestamp and no error, and the
\* handler leaves the state, the task counter and the metadata unchanged,
\* whatever the node state is.
PingEchoesTimestamp ==
    /\ [](\A p \in Pings : ping[p].pc = "returned" =>
              /\ ping[p].resp.set
              /\ ping[p].resp.pingTimestamp = ping[p].req.timestamp
              /\ ~ping[p].resp.err)
    /\ [][\A p \in Pings :
            (ping[p].pc = "handling" /\ ping'[p].pc = "returned") =>
                UNCHANGED <<state, activeTasks, metadata>>]_vars

\* C23: Ping has answered in a STOPPED node with a task counted and metadata
\* set, the reply's two timestamps being different.
PingAnsweredWhenStopped ==
    \E p \in Pings :
        /\ ping[p].pc = "returned"
        /\ ping[p].resp.pingTimestamp # ping[p].resp.pongTimestamp
        /\ state = "STOPPED"
        /\ activeTasks = 1
        /\ metadata["role"] = "router"


\* --------------------------------------------------------- Executor, claims
\* The events Execute takes from the stream: up to and including the first
\* one that carries an error or Done (the provider's final event).
RECURSIVE Consumed(_)
Consumed(events) ==
    IF events = <<>> THEN <<>>
    ELSE IF Head(events).error \/ Head(events).done THEN <<Head(events)>>
    ELSE <<Head(events)>> \o Consumed(Tail(events))

\* One WORKING update per event that has content and no error, in order.
RECURSIVE WorkingUpdates(_)
WorkingUpdates(events) ==
    IF events = <<>> THEN <<>>
    ELSE (IF Head(events).content # <<>> /\ ~Head(events).error
          THEN <<StatusEvent("WORKING", FALSE, Head(events).content)>>
          ELSE <<>>) \o WorkingUpdates(Tail(events))

\* The chunks of the events without error, concatenated.
RECURSIVE ChunksOf(_)
ChunksOf(events) ==
    IF events = <<>> THEN <<>>
    ELSE (IF Head(events).error THEN <<>> ELSE Head(events).content)
            \o ChunksOf(Tail(events))

MetError(events) == \E i \in 1..Len(Consumed(events)) : Consumed(events)[i].error
FinalsIn(q) == {i \in 1..Len(q) : q[i].final}
StreamReturned == exec.pc = "returned" /\ exec.streaming /\ ~exec.provider.fails

\* C24: in streaming mode, when no queue write failed, Execute has emitted
\* one WORKING update per content event it took from the stream, in order,
\* then one final event: FAILED if an error event was met, else COMPLETED
\* with the concatenation of the chunks; at any time the queue holds at most
\* one final event, and it is the last one.
StreamEmitsThenFinal ==
    /\ Cardinality(FinalsIn(queue)) <= 1
    /\ FinalsIn(queue) \subseteq {Len(queue)}
    /\ (StreamReturned /\ exec.ret = "nil") =>
          LET taken == Consumed(exec.provider.events)
          IN  queue = WorkingUpdates(taken) \o
                  << IF MetError(exec.provider.events)
                     THEN StatusEvent("FAILED", TRUE, ErrText)
                     ELSE StatusEvent("COMPLETED", TRUE, ChunksOf(taken)) >>

\* C24: a stream of two content events and an empty Done event gave two
\* WORKING updates and COMPLETED with both chunks.
TwoChunksCompleted ==
    /\ StreamReturned
    /\ Len(queue) = 3
    /\ queue[3] = StatusEvent("COMPLETED", TRUE, <<"a", "b">>)
    /\ Len(exec.provider.events) = 3
    /\ exec.provider.events[3].content = <<>>

ProviderFailed ==
    \/ exec.provider.fails
    \/ exec.streaming /\ MetError(exec.provider.events)

\* C25: when Complete failed, Stream failed to start or a stream event
\* carried an error, Execute returns nothing but the result of its queue
\* write, the queue ends with the one final FAILED event if that write
\* succeeded, and holds no agent message and no COMPLETED event.
ProviderFailureInBand ==
    (exec.pc = "returned" /\ ProviderFailed) =>
        /\ exec.ret \in {"nil", "writeErr"}
        /\ exec.ret = "nil" =>
              /\ queue # <<>>
              /\ queue[Len(queue)] = StatusEvent("FAILED", TRUE, ErrText)
              /\ FinalsIn(queue) = {Len(queue)}
        /\ \A i \in 1..Len(queue) :
              queue[i].kind # "message" /\ queue[i].state # "COMPLETED"

\* C25: a stream failed after a chunk: the WORKING update, then FAILED, and
\* Execute returned nil.
FailedAfterChunk ==
    /\ StreamReturned
    /\ exec.ret = "nil"
    /\ Len(queue) = 2
    /\ queue[1].state = "WORKING"
    /\ queue[2] = StatusEvent("FAILED", TRUE, ErrText)


\* C21: the teardown of Close runs once: a close(ch) that a Close is about
\* to execute is on an open channel, a closed channel was closed by one
\* call, at most one call gets past the l.closed test; and a Close that
\* finds the listener closed returns nil and changes nothing of the
\* listener.
CloseIdempotent ==
    /\ [](\A c \in Closers, t \in StreamTypes :
            (CloseAt(c, "channels") /\ t \notin closePc[c].chans)
                => ~streams[t].closed)
    /\ [](\A t \in StreamTypes :
            streams[t].closed =>
                Cardinality({c \in Closers : t \in closePc[c].chans}) = 1)
    /\ [](Cardinality({c \in Closers : CloseDid(c, "lock")
                                       /\ closePc[c].ret # "nil"}) <= 1)
    /\ [][\A c \in Closers :
            (CloseAt(c, "lock") /\ lClosed /\ closePc'[c] # closePc[c])
            => /\ CloseReturned(c)'
               /\ closePc'[c].ret = "nil"
               /\ UNCHANGED <<lisVars, lctx, streams, lconns, peer, strm,
                              panicked>>]_vars

\* C21: a Close called while another call was running has returned nil,
\* and the other call has closed every channel and returned.
ConcurrentCloseReturnedNil ==
    \E c, d \in Closers :
        /\ c # d
        /\ CloseReturned(c) /\ closePc[c].overlap /\ closePc[c].ret = "nil"
        /\ CloseReturned(d) /\ closePc[d].chans = StreamTypes

\* handleConnection k has its stream and the channel of its type in hand,
\* and that channel is closed.
AtSelectOnClosed(k) ==
    /\ peer[k].hpc = "select"
    /\ streams[StreamChanOf(strm[peer[k].cur].typ)].closed

\* Some call of MuxListener.Close has returned.
SomeCloseReturned == \E c \in Closers : CloseReturned(c)

\* MuxListener.Close has returned, a stream is still queued in the closed
\* acceptor channel of type t, and a call of Accept on the listener of that
\* type can begin.
QueuedStreamAfterClose ==
    \E a \in Acceptors, t \in StreamTypes :
        /\ SomeCloseReturned
        /\ streams[t].closed /\ streams[t].buf # <<>>
        /\ ENABLED AcceptCall(a, t)

\* C39: an Accept that returns once MuxListener.Close has returned returns
\* net.ErrClosed and no connection.
AcceptReturnAfterCloseGivesErrClosed ==
    [][\A a \in Acceptors :
          (SomeCloseReturned /\ acc[a].pc = "select" /\ acc'[a].pc = "returned")
              => acc'[a].err = "ErrClosed" /\ acc'[a].got = NoStream]_vars

\* C28: in no interleaving of handleConnection with Close does the
\* per-connection loop send on an acceptor channel that Close has closed:
\* the process never panics in the select of a handleConnection whose
\* channel is closed.
NoSendOnClosedChannel ==
    ~(panicked /\ \E k \in Peers : AtSelectOnClosed(k))

\* handleConnection k was started and its deferred function has not run.
LoopAlive(k) == peer[k].hpc \in {"accept", "lookup", "select", "exit"}

ConnServedAndRemoved ==
    \E k \in Peers : peer[k].hpc = "returned" /\ k \notin lconns

\* C30: the per-connection loop of a connection has ended only if that
\* connection is closed or the scope of the listener is cancelled: a failure
\* of one sub-stream does not end it.
LoopEndsOnlyWithConn ==
    \A k \in Peers :
        peer[k].hpc \in {"exit", "returned"} => ~peer[k].open \/ lctx

\* --------------------------------------------------------------- pki, claims
\* The handshake of the claim: a server leaf minted as server by the CA the
\* server trusts, a client leaf minted as client by the CA the client
\* trusts, the server name "localhost".
HandshakeOfLeaves ==
    /\ shake.done
    /\ shake.serverName = "localhost"
    /\ leaf["server"].isServer /\ leaf["server"].cert.issuer = shake.serverCA
    /\ leaf["client"].isClient /\ leaf["client"].cert.issuer = shake.clientCA

\* C26: such a handshake succeeds when the two leaves and trust roots come
\* from one CA and fails when the client's come from another CA than the
\* server's.
HandshakeWithinOneCA ==
    HandshakeOfLeaves => (shake.ok <=> shake.serverCA = shake.clientCA)

\* C26: a handshake within ca1 has succeeded.
SameCAHandshakeDone ==
    HandshakeOfLeaves /\ shake.ok /\ shake.serverCA = "ca1" /\ shake.clientCA = "ca1"

\* C27: GenerateCert called with both flags false returns an error and no
\* certificate, and every certificate returned has a non-empty
\* extended-key-usage set that matches the flags.
GenerateCertNeedsRole ==
    \A r \in Roles :
        leaf[r].minted =>
            /\ (~leaf[r].isServer /\ ~leaf[r].isClient) =>
                  leaf[r].err /\ leaf[r].cert = NoCert
            /\ ~leaf[r].err =>
                  leaf[r].cert.eku =
                      {u \in {"serverAuth", "clientAuth"} :
                          \/ u = "serverAuth" /\ leaf[r].isServer
                          \/ u = "clientAuth" /\ leaf[r].isClient} /\
                  leaf[r].cert.eku # {}


\* ---------------------------------------------- full acceptor channel, claims
\* handleConnection k holds stream x in its select.
SendPending(k, x) == peer[k].hpc = "select" /\ peer[k].cur = x

\* C31: a channel never holds more than ChanCap streams; a stream that
\* handleConnection holds in its select is sent only when the channel has a
\* free slot and is closed only when the scope of the listener is
\* cancelled, and meanwhile no further stream of that connection is
\* accepted; and a held stream whose channel has a free slot is eventually
\* queued unless the listener is closed.
SendBlocksWhenFull ==
    /\ [](\A t \in StreamTypes : Len(streams[t].buf) <= ChanCap)
    /\ [][\A k \in Peers, x \in StreamIds :
            SendPending(k, x) =>
                /\ \/ strm'[x] = strm[x] /\ (peer'[k].hpc = "select" \/ panicked')
                   \/ /\ strm'[x].st = "queued"
                      /\ Len(streams[StreamChanOf(strm[x].typ)].buf) < ChanCap
                      /\ streams'[StreamChanOf(strm[x].typ)].buf =
                            Append(streams[StreamChanOf(strm[x].typ)].buf, x)
                   \/ strm'[x].st = "closed" /\ lctx
                /\ \A y \in StreamIds :
                      (strm[y].conn = k /\ strm[y].st = "inbound")
                          => strm'[y].st = "inbound"]_vars
    /\ \A k \in Peers, x \in StreamIds :
          (SendPending(k, x)
           /\ Len(streams[StreamChanOf(strm[x].typ)].buf) < ChanCap)
              ~> (strm[x].st \in {"queued", "returned"} \/ lClosed)

\* C31: the first new stream took the last slot and the channel is full,
\* the listener is open, and handleConnection holds the second stream in
\* its select.
SendWaitsOnFullChannel ==
    /\ strm[1].st = "queued"
    /\ Len(streams["control"].buf) = ChanCap
    /\ ~lClosed
    /\ SendPending(BacklogConn, 2)
    /\ strm[2].typ = "control"

\* A stream that waited on the full channel was queued after an Accept call
\* took a stream out.
WaitingStreamDelivered ==
    /\ strm[2].st = "queued"
    /\ Len(streams["control"].buf) = ChanCap
    /\ \E a \in Acceptors : GotStream(a)

====
